---------------------------- MODULE Spec2Model ----------------------------
(***************************************************************************)
(* A state-machine model of the AI summary agent scripts:                  *)
(*   "agent"    src/ai_summary_agent.py                                    *)
(*   "root"     src/tweet_scraper.py                                       *)
(*   "scripts"  src/scripts/tweet_scraper.py                               *)
(*   "nitter"   src/scripts/twitter_scraper_nitter.py                      *)
(*   "scrapfly" src/scripts/twitter_scraper_scrapfly.py                    *)
(* Every script is a rewrite of the same pipeline (select a mirror, scrape *)
(* the accounts, summarize, post to the webhook), so one variable,         *)
(* version, says which script a behaviour is a run of.                     *)
(***************************************************************************)
EXTENDS Integers, Sequences, FiniteSets, TLC

VARIABLES
    version,                \* which script runs
    now,                    \* datetime.now(): seconds since the start of the model's clock
    instance_retry_delays,  \* self.instance_retry_delays: instance -> cooldown deadline
    current_instance,       \* self.current_instance (None or an index of NITTER_INSTANCES)
    ppc,                    \* position of the mirror selection: "idle", "loop", "done"
    idx,                    \* loop index of the selection over NITTER_INSTANCES
    approach,               \* index into test_approaches (nitter version)
    probe_log,              \* per instance, what this selection call did with it
    nreq,                   \* probe requests sent (session.get) by this selection call
    last_resp,              \* the response the last probe request got
    start_date,             \* main's start_date (seconds), -1 before _get_date_range
    end_date,               \* main's end_date
    parse_in,               \* the argument of the last _parse_tweet_date call
    parse_out,              \* what that call returned or raised
    page,                   \* the tweet containers of the fetched user page
    cidx,                   \* position of get_user_tweets in the containers
    tweets,                 \* get_user_tweets' list: the containers appended so far
    mpc,                    \* position of main
    env_ok,                 \* the required environment variables are set
    backends,               \* SCRAPFLY_AVAILABLE / PLAYWRIGHT_AVAILABLE (scrapfly version)
    acct,                   \* accounts of X_ACCOUNTS that main has processed
    all_tweets,             \* len(all_tweets)
    successful_accounts,    \* main's successful_accounts
    summary,                \* what generate_summary / the canned text function returned
    slack_log,              \* the messages handed to the webhook, in order
    raised,                 \* an exception left main
    api_result,             \* how the chat-completion request of generate_summary ended
    env,                    \* the environment variables that are set
    events,                 \* the scrapes and sleeps of the account loop, in order
    base_delay,             \* scrape_all_accounts' base_delay, in milliseconds
    success_streak,         \* scrape_all_accounts' success_streak
    slept,                  \* milliseconds the account loop slept after the last scrape
    tweet_list,             \* the tweets argument of generate_summary / generate_manual_summary
    prompt,                 \* positions of tweet_list whose text is in the prompt
    api_requests,           \* chat-completion requests sent by this generate_summary call
    spc,                    \* position of the generate_summary call
    kidx,                   \* loop index of generate_manual_summary over the tweets
    categorized,            \* generate_manual_summary's categorized: category -> tweets
    send_msg,               \* the message argument of the send_to_slack call
    send_ret,               \* what that call returned: "none" before it returns
    posts,                  \* the requests.post calls of send_to_slack, in order
    tpc,                    \* position of the scrape_user_timeline call
    max_tweets,             \* its max_tweets argument
    tl_calls,               \* the scraping methods the call has run, in order
    sf,                     \* how the Scrapfly request of the call went
    pw,                     \* how the Playwright scrape of the call went
    tl_result,              \* len() of the list the call returned, -1 before
    created_at,             \* tweet.get("created_at") of the is_tweet_recent call
    now_utc,                \* datetime.now(utc) of that call, in milliseconds
    recent_out,             \* what the call returned: "none" before it returns
    gpc,                    \* position of the agent's get_user_tweets call
    retry_count,            \* its retry_count
    last_working_instance,  \* its last_working_instance
    load_more_url,          \* its load_more_url: the instance and the page of the URL
    load_more_clicks,       \* its load_more_clicks
    found_tweets_in_range,  \* its found_tweets_in_range
    timeline,               \* the pages of the account's timeline on the mirrors
    last_request,           \* the last page request (session.get(url)) that was answered
    cursor_pages,           \* the highest show-more page requested by the call
    copies,                 \* page -> times its in-window tweet was appended to tweets
    npc,                    \* position of the get_user_tweets call (scripts versions)
    attempt,                \* its loop variable attempt
    page_requests,          \* requests for the user's page the call has sent
    requested,              \* the last of them: instance, answer, time
    n_result,               \* what the call returned: [] without parsing, or a parsed body
    n_tweets,               \* len() of the list it returned
    ncalls,                 \* calls of get_user_tweets on this scraper so far
    run_requests,           \* page requests of all these calls
    run_probes,             \* runs of _find_working_source after the constructor
    xpc,                    \* position of the scrape_user_timeline_playwright call
    x_acct,                 \* the account of that call (its place in X_ACCOUNTS)
    pending,                \* (account, URL kind) -> XHR responses of its page under way
    xhr_calls,              \* xhr_calls of the call: the account and URL kind of each response
    x_tweets,               \* the tweets the call returned, by the same accounts
    kpc,                    \* which of the capped functions has been called
    cap_in,                 \* its input
    cap_looked,             \* the tweet containers it selected
    cap_out                 \* the list it returned or added

probeVars == <<instance_retry_delays, current_instance, ppc, idx, approach,
               probe_log, nreq, last_resp>>

dateVars == <<start_date, end_date, parse_in, parse_out>>

filterVars == <<page, cidx, tweets>>

mainVars == <<mpc, env_ok, backends, acct, all_tweets, successful_accounts,
              summary, slack_log, raised, api_result>>

summaryVars == <<tweet_list, prompt, api_requests, spc, kidx, categorized>>

slackVars == <<send_msg, send_ret, posts>>

\* What the selection, the filter and main leave alone.
timelineVars == <<tpc, max_tweets, tl_calls, sf, pw, tl_result>>

recentVars == <<created_at, now_utc, recent_out>>

traceVars == <<timeline, last_request, cursor_pages, copies>>

loopVars == <<gpc, retry_count, last_working_instance, load_more_url,
              load_more_clicks, found_tweets_in_range, traceVars>>

attemptVars == <<npc, attempt, page_requests, requested, n_result, n_tweets,
                 ncalls, run_requests, run_probes>>

\* The calls that are modelled on their own besides the ones above.
xhrVars == <<xpc, x_acct, pending, xhr_calls, x_tweets>>

capVars == <<kpc, cap_in, cap_looked, cap_out>>

moreVars == <<attemptVars, xhrVars, capVars>>

otherExt == <<env, moreVars, summaryVars, slackVars, timelineVars, recentVars,
              loopVars>>

\* The locals of the rate limiting of scrape_all_accounts.
rateVars == <<base_delay, success_streak, slept>>

extVars == <<events, rateVars, otherExt>>

coreVars == <<version, now, probeVars, dateVars, filterVars, mainVars>>

vars == <<coreVars, extVars>>

---------------------------------------------------------------------------
(* Bounds of the model *)

\* Length of NITTER_INSTANCES that the model explores (the lists hold 15, 8 and 10).
NumInstances == 3

\* The clock stops here.
MaxTime == 300

\* Length of X_ACCOUNTS / AI_ACCOUNTS that the model explores (the lists hold 11).
NumAccounts == 2

\* Pages of a timeline that the model explores: the user's page and the
\* show-more pages behind it.
MaxPages == 7

\* The copies of one tweet in the list are counted up to this number.
MaxCopies == 2

\* Calls of get_user_tweets on one scraper of the scripts versions.
MaxCalls == 2

\* Timeline responses that a loaded page waits for.
MaxXhr == 2

\* The most elements a selector finds on a page of the model.
MaxContainers == 12

\* The most recent tweets of one account in the model.
MaxRecent == 7

---------------------------------------------------------------------------
(* Values *)

None == 0

Instances == 1..NumInstances

\* Page 0 is the user's page, page k the k-th show-more page.
PagePositions == 0..(MaxPages - 1)

\* load_more_url = None
NoUrl == [inst |-> None, page |-> 0]

NoTimeline == [len |-> 0, last |-> "none", window |-> {}, bare |-> FALSE]

NoRequest == [inst |-> None, page |-> 0, cooling |-> FALSE]

NoDelay == -1

Versions == {"agent", "root", "scripts", "nitter", "scrapfly"}

NitterVersions == {"agent", "root", "scripts", "nitter"}

\* The clock advances by this much between any two steps: past the 90 s
\* cooldown in one step, past the 120 s cooldown in two, and exactly onto the
\* deadline of the 300 s cooldown in three.
TickDeltas == {100}

\* indicators_found >= 2 accepts (nitter version).
IndicatorsNeeded == 2

\* What the validation of a probe's body looks at: soup.find of div.timeline,
\* div.profile or div.timeline-item (scripts), the number of nitter_indicators
\* found in the lower-cased text, counted up to IndicatorsNeeded, and
\* len(response.text) > 1000 (nitter).  A page with one of the divs holds the
\* word of its class, so it has at least one indicator.
Bodies == {b \in [divs : BOOLEAN, ind : 0..IndicatorsNeeded, long : BOOLEAN] :
              b.divs => b.ind >= 1}

NoBody == [divs |-> FALSE, ind |-> 0, long |-> FALSE]

HTTP_OK == 200

HTTP_RATE_LIMITED == 429

HTTP_UNAVAILABLE == 503

HTTP_NOT_FOUND == 404

\* tweet.get("id") is None, empty or 0.
NoId == 0

\* recent_tweets[:5]
AccountCap == 5

\* session.get raised.
AttemptRaised == -1

\* The outcomes of session.get for a probe: an exception (exc), or a response
\* with its status, whether its final URL matches one of the redirect patterns
\* ("status.d420.de", "blocked", ...), and its body.  The body is read only
\* of a 200 response that is not such a redirect.
Responses ==
    {[exc |-> TRUE, status |-> 0, flagged |-> FALSE, body |-> NoBody]}
    \cup {[exc |-> FALSE, status |-> HTTP_OK, flagged |-> FALSE, body |-> b] :
              b \in Bodies}
    \cup {[exc |-> FALSE, status |-> s, flagged |-> TRUE, body |-> NoBody] :
              s \in {HTTP_OK, HTTP_RATE_LIMITED, HTTP_UNAVAILABLE}}
    \cup {[exc |-> FALSE, status |-> s, flagged |-> FALSE, body |-> NoBody] :
              s \in {HTTP_RATE_LIMITED, HTTP_UNAVAILABLE}}

NoResp == [exc |-> TRUE, status |-> -1, flagged |-> FALSE, body |-> NoBody]

NoSummary == [kind |-> "none", empty |-> TRUE]

\* The environment variables the scripts read.
EnvVars == {"OPENAI_API_KEY", "SLACK_WEBHOOK_URL", "SCRAPFLY_API_KEY"}

\* No variable is required.
RequiredVarsNone(v) == {}

\* required_vars of main.
RequiredVars(v) ==
    IF v = "scrapfly" THEN {"SLACK_WEBHOOK_URL"}
    ELSE {"OPENAI_API_KEY", "SLACK_WEBHOOK_URL"}

\* len(topics) of generate_manual_summary.
NumCategories == 5

Categories == 1..NumCategories

NoCategorized == [c \in Categories |-> <<>>]

SummaryIdle ==
    /\ tweet_list = <<>>
    /\ prompt = <<>>
    /\ api_requests = 0
    /\ spc = "idle"
    /\ kidx = 0
    /\ categorized = NoCategorized

Min(a, b) == IF a <= b THEN a ELSE b

\* base_delay = 1.0, max(0.5, ...) and max_delay = 10.0 of scrape_all_accounts,
\* in milliseconds.
InitialDelay == 1000

MinDelay == 500

MaxDelay == 10000

SlackIdle == send_msg = "" /\ send_ret = "none" /\ posts = <<>>

\* No Scrapfly request was sent.
NoScrape == [exc |-> FALSE, status |-> 0, raw |-> 0, unique |-> 0]

TimelineIdle ==
    /\ tpc = "idle"
    /\ max_tweets = 0
    /\ tl_calls = <<>>
    /\ sf = NoScrape
    /\ pw = "none"
    /\ tl_result = -1

\* A created_at value: the key is missing, or the value is the empty string,
\* a string in no date format, a date in another format, not a string, or a
\* date in Twitter's format with its wall-clock time and UTC offset in
\* milliseconds.
CreatedAt(kind, local, offset) ==
    [kind |-> kind, local |-> local, offset |-> offset]

RecentIdle ==
    /\ created_at = CreatedAt("missing", 0, 0)
    /\ now_utc = 0
    /\ recent_out = "none"

NoRequested == [inst |-> None, status |-> 0, at |-> 0]

AttemptIdle ==
    /\ npc = "idle"
    /\ attempt = 0
    /\ page_requests = 0
    /\ requested = NoRequested
    /\ n_result = "none"
    /\ n_tweets = 0
    /\ ncalls = 0
    /\ run_requests = 0
    /\ run_probes = 0

XhrIdle ==
    /\ xpc = "idle"
    /\ x_acct = 0
    /\ pending = [r \in (1..NumAccounts) \X {"UserTweets", "other"} |-> 0]
    /\ xhr_calls = <<>>
    /\ x_tweets = <<>>

CapIdle ==
    /\ kpc = "idle"
    /\ cap_in = [user |-> 0, found |-> <<>>, pattern |-> "none", raw |-> <<>>,
                 max_tweets |-> 0, recent |-> 0]
    /\ cap_looked = {}
    /\ cap_out = <<>>

MoreIdle == AttemptIdle /\ XhrIdle /\ CapIdle

LoopIdle ==
    /\ gpc = "idle"
    /\ retry_count = 0
    /\ last_working_instance = None
    /\ load_more_url = NoUrl
    /\ load_more_clicks = 0
    /\ found_tweets_in_range = FALSE
    /\ timeline = NoTimeline
    /\ last_request = NoRequest
    /\ cursor_pages = 0
    /\ copies = [p \in PagePositions |-> 0]

\* Nothing outside main, the selection and the filter has run.
ExtIdle ==
    /\ LoopIdle
    /\ MoreIdle
    /\ RecentIdle
    /\ TimelineIdle
    /\ SlackIdle
    /\ events = <<>>
    /\ base_delay = InitialDelay
    /\ success_streak = 0
    /\ slept = 0
    /\ SummaryIdle

\* Before main starts.
MainIdle ==
    /\ mpc = "idle"
    /\ env_ok = TRUE
    /\ backends = {}
    /\ acct = 0
    /\ all_tweets = 0
    /\ successful_accounts = 0
    /\ summary = NoSummary
    /\ slack_log = <<>>
    /\ raised = FALSE
    /\ api_result = "none"

---------------------------------------------------------------------------
(* Dates *)

SecondsPerDay == 24 * 3600

\* 23:59:59 as seconds of the day.
EndOfDay == 23 * 3600 + 59 * 60 + 59

\* Timestamps are seconds since 00:00:00 UTC of day 0; the model knows the
\* days 0..MaxDay.
MaxDay == 3

Days == 0..MaxDay

\* The run happens on one of these days, so that two days ago exists.
NowDays == 2..MaxDay

\* Times of day the model samples: midnight, one second later, noon, the last
\* minute and the last second of the day.
TimesOfDay == {0, 1, 12 * 3600, 23 * 3600 + 59 * 60, EndOfDay}

MinuteTimes == {t \in TimesOfDay : t % 60 = 0}

NowSamples == {d * SecondsPerDay + t : d \in NowDays, t \in TimesOfDay}

SampleTimestamps == {d * SecondsPerDay + t : d \in Days, t \in TimesOfDay}

\* The window of the last 24 hours.
GetDateRangeLast24h(t) == [start |-> t - SecondsPerDay, end |-> t]

\* _get_date_range / get_date_range: today's 00:00:00 and 23:59:59, each minus
\* timedelta(days=1).
GetDateRange(t) ==
    LET midnight == (t \div SecondsPerDay) * SecondsPerDay
    IN  [start |-> midnight - SecondsPerDay,
         end |-> midnight + EndOfDay - SecondsPerDay]

\* The separator glyph between date and time, as the bytes of each file read:
\* "dot" is the middle dot, "mac" and "lat" are the two mis-decoded forms of it
\* that the sources hold.
Seps == {"dot", "mac", "lat"}

FormatSep(v) ==
    CASE v = "root" -> "dot"
      [] v = "scripts" -> "mac"
      [] OTHER -> "lat"

\* len(formats) of the scripts/ versions; the agent and the root version try
\* two formats.
NumFormatsScripts == 8

NumFormatsRoot == 2

\* The first four formats hold the separator glyph.
NumSeparatedFormats == 4

NumFormats(v) ==
    IF v \in {"scripts", "nitter"} THEN NumFormatsScripts ELSE NumFormatsRoot

\* A date string: None, "", a blank string, a string in no date layout
\* (garbage), or the rendering of the time tod of day in layout shape (the
\* k-th layout is the one the k-th format of the scripts/ versions describes)
\* with separator glyph sep, possibly padded with blanks.
MkStr(k, sh, sp, p, d, t) ==
    [kind |-> k, shape |-> sh, sep |-> sp, pad |-> p, day |-> d, tod |-> t]

NoneStr == MkStr("none", 0, "na", FALSE, 0, 0)

EmptyStr == MkStr("empty", 0, "na", FALSE, 0, 0)

BlankStr == MkStr("blank", 0, "na", TRUE, 0, 0)

GarbageStr == MkStr("garbage", 0, "na", FALSE, 0, 0)

\* %M layouts render whole minutes, %S (layout 7) seconds, the date-only
\* layout (8) midnight.
ShapeTimes(k) ==
    IF k = 7 THEN TimesOfDay ELSE IF k = 8 THEN {0} ELSE MinuteTimes

ShapeSeps(k) == IF k <= NumSeparatedFormats THEN Seps ELSE {"na"}

FormattedStrings ==
    UNION {{MkStr("fmt", k, sp, p, d, t) :
                sp \in ShapeSeps(k), p \in BOOLEAN, d \in Days, t \in ShapeTimes(k)} :
           k \in 1..NumFormatsScripts}

DateStrings == {NoneStr, EmptyStr, BlankStr, GarbageStr} \cup FormattedStrings

\* if not date_str
Falsy(s) == s.kind \in {"none", "empty"}

\* date_str.strip()
Strip(s) == IF s.kind = "blank" THEN EmptyStr ELSE [s EXCEPT !.pad = FALSE]

\* The format list of a version.
Formats(v) ==
    [k \in 1..NumFormats(v) |->
        [shape |-> k,
         sep |-> IF k <= NumSeparatedFormats THEN FormatSep(v) ELSE "na"]]

\* datetime.strptime(s, f): TypeError for None, the naive datetime when the
\* whole string has the layout of the format, ValueError otherwise.
Strptime(s, f) ==
    IF s.kind = "none" THEN "TypeError"
    ELSE IF s.kind = "fmt" /\ ~s.pad /\ s.shape = f.shape /\ s.sep = f.sep
         THEN "ok"
    ELSE "ValueError"

\* pytz.UTC.localize of the parsed datetime, as a timestamp.
Localize(s) == s.day * SecondsPerDay + s.tod

ParsedNone == [kind |-> "none", ts |-> 0]

Raised == [kind |-> "raise", ts |-> 0]

NotParsed == [kind |-> "idle", ts |-> 0]

\* for fmt in formats: try strptime, on ValueError continue.
RECURSIVE TryFormats(_, _, _)
TryFormats(fs, s, k) ==
    IF k > Len(fs) THEN ParsedNone
    ELSE LET r == Strptime(s, fs[k])
         IN  IF r = "TypeError" THEN Raised
             ELSE IF r = "ok" THEN [kind |-> "dt", ts |-> Localize(s)]
             ELSE TryFormats(fs, s, k + 1)

\* _parse_tweet_date (and the inline parse of the agent): the scripts/
\* versions return None for a falsy argument, strip, and turn any other
\* exception into None; the root version and the agent hand the argument to
\* strptime as it is and catch ValueError only.
ParseTweetDate(v, s) ==
    IF v \in {"scripts", "nitter"}
    THEN IF Falsy(s) THEN ParsedNone
         ELSE LET r == TryFormats(Formats(v), Strip(s), 1)
              IN  IF r = Raised THEN ParsedNone ELSE r
    ELSE TryFormats(Formats(v), s, 1)

DateIdle ==
    /\ start_date = None
    /\ end_date = None
    /\ parse_in = NoneStr
    /\ parse_out = NotParsed

\* start_date, end_date = scraper._get_date_range()
DateRangeCall ==
    /\ start_date = None
    /\ start_date' = GetDateRange(now).start
    /\ end_date' = GetDateRange(now).end
    /\ UNCHANGED <<version, now, probeVars, parse_in, parse_out, filterVars, mainVars>>
    /\ UNCHANGED extVars

\* A call of _parse_tweet_date on its own, as test_date_parsing.py makes them.
ParseCall ==
    /\ version # "agent"
    /\ parse_out = NotParsed
    /\ \E s \in DateStrings :
        /\ parse_in' = s
        /\ parse_out' = ParseTweetDate(version, s)
    /\ UNCHANGED <<version, now, probeVars, start_date, end_date, filterVars, mainVars>>
    /\ UNCHANGED extVars

---------------------------------------------------------------------------
(* get_user_tweets: the filter over the tweet containers of a page *)

\* The text element of a container: missing, shorter than 10 characters, or
\* at least 10 characters long.
Texts == {"none", "short", "ok"}

\* A tweet container: its text, whether it holds a date element
\* (span.tweet-date, ...), the title attribute of the link inside the date
\* element, and the first non-empty of the date element's own title
\* attribute, datetime attribute and text.
MkContainer(tx, el, lt, es) ==
    [text |-> tx, date_el |-> el, link_title |-> lt, el_str |-> es]

\* The agent and the root version read date_link['title'], the scripts/
\* versions read the date element itself.
ReadsLinkTitle(v) == v \in {"agent", "root"}

Containers(v) ==
    {MkContainer(tx, TRUE,
                 IF ReadsLinkTitle(v) THEN s ELSE NoneStr,
                 IF ReadsLinkTitle(v) THEN NoneStr ELSE s) :
         tx \in Texts, s \in DateStrings}
    \cup {MkContainer(tx, FALSE, NoneStr, NoneStr) : tx \in Texts}

\* The page of create_mock_nitter_html at time t, written with separator sp:
\* the link title in the first layout, the link text (the text of the span) in
\* the third; tweets of yesterday, today, yesterday at 14 h, two days ago,
\* and one without a date element.
ExamplePage(sp, t) ==
    LET today == t \div SecondsPerDay
        minute == ((t % SecondsPerDay) \div 60) * 60
        tweet(d, m) == MkContainer("ok", TRUE,
                                   MkStr("fmt", 1, sp, FALSE, d, minute),
                                   MkStr("fmt", 3, sp, FALSE, d, m))
    IN  <<tweet(today - 1, minute),
          tweet(today, minute),
          tweet(today - 1, 14 * 3600 + (minute % 3600)),
          tweet(today - 2, minute),
          MkContainer("ok", FALSE, NoneStr, NoneStr)>>

\* The pages the model fetches: every page of one container, and the example
\* page in each separator.
Pages(v, t) ==
    {<<c>> : c \in Containers(v)} \cup {ExamplePage(sp, t) : sp \in Seps}

\* containers[:10]
ContainerLimit == 10

\* if len(tweets) >= 8: break
TweetCap == 8

\* Only the scripts/ versions bound the containers and the result.
Bounded(v) == v \in {"scripts", "nitter"}

\* The scripts/ versions skip a text under 10 characters; the agent and the
\* root version need the text element only.
TextAccepted(v, c) ==
    IF v \in {"scripts", "nitter"} THEN c.text = "ok" ELSE c.text # "none"

\* The date string the version hands to the parser, None when the container
\* gives none.
DateStringRead(v, c) ==
    IF ~c.date_el THEN NoneStr
    ELSE IF ReadsLinkTitle(v) THEN c.link_title ELSE c.el_str

TweetDate(v, c) ==
    LET s == DateStringRead(v, c)
    IN  IF s.kind = "none" THEN ParsedNone ELSE ParseTweetDate(v, s)

\* The window with its bounds left out.
InWindowStrict(ts, sd, ed) == sd < ts /\ ts < ed

\* start_date <= tweet_date <= end_date
InWindow(ts, sd, ed) == sd <= ts /\ ts <= ed

\* No version keeps a tweet without a parsed date.
UndatedIncludedNowhere(v) == FALSE

\* Without a parsed date the scripts/ versions set include_tweet = True; the
\* agent and the root version continue with the next container.
UndatedIncluded(v) == v \in {"scripts", "nitter"}

\* Whether the loop body appends the container's tweet.
IncludeTweet(v, c, sd, ed) ==
    /\ TextAccepted(v, c)
    /\ LET td == TweetDate(v, c)
       IN  IF td.kind = "dt" THEN InWindow(td.ts, sd, ed) ELSE UndatedIncluded(v)

FilterIdle ==
    /\ page = <<>>
    /\ cidx = 0
    /\ tweets = <<>>

\* get_user_tweets up to the loop: the page is fetched and its containers
\* selected.
FetchPage ==
    /\ start_date # None
    /\ cidx = 0
    /\ cidx' = 1
    /\ tweets' = <<>>
    /\ UNCHANGED <<version, now, probeVars, dateVars, page, mainVars>>
    /\ UNCHANGED extVars

\* One iteration of the loop over tweet_containers.
ProcessContainer ==
    /\ cidx >= 1
    /\ cidx <= Len(page)
    /\ Bounded(version) => cidx <= ContainerLimit
    /\ LET include == IncludeTweet(version, page[cidx], start_date, end_date)
           appended == IF include THEN Append(tweets, cidx) ELSE tweets
       IN  /\ tweets' = appended
           /\ cidx' = IF include /\ Bounded(version) /\ Len(appended) >= TweetCap
                      THEN Len(page) + 1
                      ELSE cidx + 1
    /\ UNCHANGED <<version, now, probeVars, dateVars, page, mainVars>>
    /\ UNCHANGED extVars

---------------------------------------------------------------------------
(* Mirror selection *)

\* timedelta(seconds=90) / (seconds=120) / (seconds=300) after a 429 probe.
CooldownAgent == 90

CooldownScripts == 120

CooldownNitter == 300

ProbeCooldown(v) ==
    CASE v = "scripts" -> CooldownScripts
      [] v = "nitter" -> CooldownNitter
      [] OTHER -> CooldownAgent

\* len(test_approaches) of the nitter version; the others send one request.
NumApproachesNitter == 3

NumApproaches(v) == IF v = "nitter" THEN NumApproachesNitter ELSE 1

\* The comparison of the cooldown check turned around.
InCooldownInverted(delays, i, t) == delays[i] # NoDelay /\ t > delays[i]

\* if instance in self.instance_retry_delays: if datetime.now() < delay
InCooldown(delays, i, t) == delays[i] # NoDelay /\ t < delays[i]

\* No body validation at all.
BodyAcceptedAny(v, b) == TRUE

\* The body validation of a 200 probe response.
BodyAccepted(v, b) ==
    CASE v = "scripts" -> b.divs
      [] v = "nitter" -> b.ind >= IndicatorsNeeded \/ (b.ind >= 1 /\ b.long)
      [] OTHER -> TRUE

\* What one probe request's outcome means for the instance:
\*   "accept"   the instance is working
\*   "cooldown" 429: record the cooldown, give the instance up
\*   "next"     try the next approach, give the instance up after the last
TestNitterInstance(v, r) ==
    IF r.exc \/ r.flagged THEN "next"
    ELSE IF r.status = HTTP_OK
         THEN IF BodyAccepted(v, r.body) THEN "accept" ELSE "next"
    ELSE IF r.status = HTTP_RATE_LIMITED THEN "cooldown"
    ELSE "next"

\* The list walked from its end.
ProbeOrderReversed(i) == NumInstances + 1 - i

\* The instances in the order the selection loop visits them.
ProbeOrder(i) == i

FreshLog == [i \in Instances |-> "none"]

\* The start of get_working_instance / _find_working_source.
BeginSelection ==
    /\ ppc' = "loop"
    /\ idx' = 1
    /\ approach' = 1
    /\ probe_log' = FreshLog
    /\ nreq' = 0
    /\ last_resp' = NoResp

\* One iteration of the selection loop on an instance in cooldown: continue /
\* return False without a request.
SkipInstance ==
    /\ ppc = "loop"
    /\ idx <= NumInstances
    /\ approach = 1
    /\ InCooldown(instance_retry_delays, ProbeOrder(idx), now)
    /\ probe_log' = [probe_log EXCEPT ![ProbeOrder(idx)] = "skipped"]
    /\ idx' = idx + 1
    /\ UNCHANGED <<version, now, instance_retry_delays, current_instance, ppc,
                   approach, nreq, last_resp>>
    /\ UNCHANGED <<dateVars, filterVars, mainVars>>
    /\ UNCHANGED extVars

\* One probe request to the instance at idx and what the code does with the
\* response.
ProbeInstance ==
    /\ ppc = "loop"
    /\ idx <= NumInstances
    /\ approach > 1 \/ ~InCooldown(instance_retry_delays, ProbeOrder(idx), now)
    /\ \E r \in Responses :
        LET i == ProbeOrder(idx)
            verdict == TestNitterInstance(version, r)
            last == approach >= NumApproaches(version)
        IN  /\ nreq' = nreq + 1
            /\ last_resp' = r
            /\ CASE verdict = "accept" ->
                      /\ current_instance' = i
                      /\ ppc' = "done"
                      /\ probe_log' = [probe_log EXCEPT ![i] = "accepted"]
                      /\ UNCHANGED <<idx, approach, instance_retry_delays>>
                 [] verdict = "cooldown" ->
                      /\ instance_retry_delays' =
                             [instance_retry_delays EXCEPT
                                 ![i] = now + ProbeCooldown(version)]
                      /\ probe_log' = [probe_log EXCEPT ![i] = "rejected"]
                      /\ idx' = idx + 1
                      /\ approach' = 1
                      /\ UNCHANGED <<current_instance, ppc>>
                 [] OTHER ->
                      /\ probe_log' = [probe_log EXCEPT
                                          ![i] = IF last THEN "rejected" ELSE @]
                      /\ idx' = IF last THEN idx + 1 ELSE idx
                      /\ approach' = IF last THEN 1 ELSE approach + 1
                      /\ UNCHANGED <<current_instance, ppc, instance_retry_delays>>
    /\ UNCHANGED <<version, now>>
    /\ UNCHANGED <<dateVars, filterVars, mainVars>>
    /\ UNCHANGED extVars

\* The loop ran out of instances: return None / self.current_instance = None.
SelectionExhausted ==
    /\ ppc = "loop"
    /\ idx > NumInstances
    /\ current_instance' = None
    /\ ppc' = "done"
    /\ UNCHANGED <<version, now, instance_retry_delays, idx, approach, probe_log,
                   nreq, last_resp>>
    /\ UNCHANGED <<dateVars, filterVars, mainVars>>
    /\ UNCHANGED extVars

\* Time passes (the sleeps of the code, the duration of a request, anything).
Tick ==
    /\ \E d \in TickDeltas :
        /\ now + d <= MaxTime
        /\ now' = now + d
    /\ UNCHANGED <<version, instance_retry_delays, current_instance, ppc, idx,
                   approach, probe_log, nreq, last_resp>>
    /\ UNCHANGED <<dateVars, filterVars, mainVars>>
    /\ UNCHANGED extVars

\* TweetScraper() / TwitterScraper(): a fresh object with an empty cooldown map
\* runs the selection.
NewScraper ==
    /\ ppc \in {"idle", "done"}
    /\ instance_retry_delays' = [i \in Instances |-> NoDelay]
    /\ current_instance' = None
    /\ BeginSelection
    /\ UNCHANGED <<version, now>>
    /\ UNCHANGED <<dateVars, filterVars, mainVars>>
    /\ UNCHANGED extVars

\* timedelta(seconds=90) (agent) / timedelta(minutes=10) (nitter): the cooldown
\* get_user_tweets gives the current instance after a 429 on the user's page.
PageCooldownAgent == 90

PageCooldownNitter == 600

PageCooldown(v) == IF v = "nitter" THEN PageCooldownNitter ELSE PageCooldownAgent

\* get_user_tweets runs the selection again on the same object: after a 429 on
\* the user's page (agent, nitter: the current instance gets a cooldown
\* first) or after another failure (agent, root).  The scripts version never
\* does.
Reselect ==
    /\ ppc = "done"
    /\ version \in {"agent", "root", "nitter"}
    /\ \E rate_limited \in BOOLEAN :
        /\ rate_limited => (version # "root" /\ current_instance # None)
        /\ ~rate_limited => version # "nitter"
        /\ instance_retry_delays' =
              IF rate_limited
              THEN [instance_retry_delays EXCEPT
                       ![current_instance] = now + PageCooldown(version)]
              ELSE instance_retry_delays
    /\ BeginSelection
    /\ UNCHANGED <<version, now, current_instance>>
    /\ UNCHANGED <<dateVars, filterVars, mainVars>>
    /\ UNCHANGED extVars

ProbeIdle ==
    /\ instance_retry_delays = [i \in Instances |-> NoDelay]
    /\ current_instance = None
    /\ ppc = "idle"
    /\ idx = 1
    /\ approach = 1
    /\ probe_log = FreshLog
    /\ nreq = 0
    /\ last_resp = NoResp

InitProbe ==
    /\ version \in NitterVersions
    /\ now = 0
    /\ ProbeIdle
    /\ DateIdle
    /\ FilterIdle
    /\ MainIdle
    /\ env = EnvVars
    /\ ExtIdle

NextProbe ==
    \/ NewScraper
    \/ Reselect
    \/ SkipInstance
    \/ ProbeInstance
    \/ SelectionExhausted
    \/ Tick

SpecProbe == InitProbe /\ [][NextProbe]_vars

---------------------------------------------------------------------------
(* main *)

\* The environments main is run in: every variable set, one missing, none set.
MainEnvs == {EnvVars, {}} \cup {EnvVars \ {x} : x \in EnvVars}

\* The most tweets one get_user_tweets call returns in the model.
MaxTweetsPerAccount == 1

\* main of the scrapfly version goes on with either backend installed.
Backends == {"scrapfly", "playwright"}

\* The agent and the root version raise from the constructor without a
\* working instance.
ConstructorRaises(v) == v \in {"agent", "root"}

\* Every handler raises again.
ReraisesEverywhere(v) == TRUE

\* except Exception: logger.error(...); raise
Reraises(v) == v \in {"agent", "root"}

\* Every version returns without tweets.
ReturnsWithoutTweetsAll(v) == TRUE

\* if not all_tweets: return
ReturnsWithoutTweets(v) == v \in {"agent", "root"}

\* try/except around get_user_tweets inside the account loop.
CatchesPerAccount(v) == v \in {"scripts", "nitter"}

\* How the chat-completion request ends: a text, a text that strips to the
\* empty string, or an exception.
ApiOutcomes == {"text", "blank", "raise"}

\* Every version falls back to the manual summary.
SummaryOnErrorManual(v) == "manual"

\* What generate_summary returns from its except clause: the string "Failed to
\* generate summary" or generate_manual_summary(tweets).
SummaryOnError(v) == IF v \in {"agent", "root"} THEN "failed" ELSE "manual"

GenerateSummary(v, api) ==
    IF api = "raise" THEN [kind |-> SummaryOnError(v), empty |-> FALSE]
    ELSE [kind |-> "ai", empty |-> api = "blank"]

\* main's text without tweets: generate_demo_summary (scripts), the no-tweets
\* message (nitter, scrapfly).
NoTweetsSummary(v) ==
    [kind |-> IF v = "scripts" THEN "demo" ELSE "no_tweets", empty |-> FALSE]

\* The agent and the root version post the summary as it is; the others post
\* it with a line about the accounts appended, or a canned text.
MessageEmpty(v, sm) == v \in {"agent", "root"} /\ sm.empty

\* The start of main: the environment check, the backend check of the
\* scrapfly version, and the call of the constructor.
MainStart ==
    /\ mpc = "start"
    /\ IF ~env_ok \/ (version = "scrapfly" /\ backends = {})
       THEN /\ mpc' = "done"
            /\ UNCHANGED probeVars
       ELSE IF version = "scrapfly"
       THEN /\ mpc' = "enter"
            /\ UNCHANGED probeVars
       ELSE /\ mpc' = "construct"
            /\ instance_retry_delays' = [i \in Instances |-> NoDelay]
            /\ current_instance' = None
            /\ BeginSelection
    /\ UNCHANGED <<version, now, dateVars, filterVars, env_ok, backends, acct,
                   all_tweets, successful_accounts, summary, slack_log, raised,
                   api_result>>
    /\ UNCHANGED extVars

\* The constructor is through the selection: it raises (agent, root) or
\* returns; the locals of the selection call are gone.
ConstructorReturns ==
    /\ mpc = "construct"
    /\ ppc = "done"
    /\ mpc' = IF current_instance = None /\ ConstructorRaises(version)
              THEN "handler" ELSE "range"
    /\ probe_log' = FreshLog
    /\ nreq' = 0
    /\ last_resp' = NoResp
    /\ UNCHANGED <<version, now, instance_retry_delays, current_instance, ppc,
                   idx, approach, dateVars, filterVars, env_ok, backends, acct,
                   all_tweets, successful_accounts, summary, slack_log, raised,
                   api_result>>
    /\ UNCHANGED extVars

\* async with TwitterScraperNew(): __aenter__ raises ImportError without
\* Playwright, and starting the browser may fail.
ScrapflyEnter ==
    /\ mpc = "enter"
    /\ \E started \in BOOLEAN :
        /\ started => "playwright" \in backends
        /\ mpc' = IF started THEN "accounts" ELSE "handler"
    /\ UNCHANGED <<version, now, probeVars, dateVars, filterVars, env_ok,
                   backends, acct, all_tweets, successful_accounts, summary,
                   slack_log, raised, api_result>>
    /\ UNCHANGED extVars

\* start_date, end_date = _get_date_range(); the scripts/ versions skip the
\* account loop without a current instance.
MainDateRange ==
    /\ mpc = "range"
    /\ start_date' = GetDateRange(now).start
    /\ end_date' = GetDateRange(now).end
    /\ mpc' = IF CatchesPerAccount(version) /\ current_instance = None
              THEN "summarize" ELSE "accounts"
    /\ UNCHANGED <<version, now, probeVars, parse_in, parse_out, filterVars,
                   env_ok, backends, acct, all_tweets, successful_accounts,
                   summary, slack_log, raised, api_result>>
    /\ UNCHANGED extVars

\* The i-th account from the end of the list.
AccountAtReversed(i) == NumAccounts + 1 - i

\* for account in X_ACCOUNTS: the i-th account of the list.
AccountAt(i) == i

\* An entry of the log of the account loop.
Ev(op, a) == [op |-> op, acct |-> a]

\* time.sleep(random.uniform(3, 5)), in milliseconds.
MinRequestsSleep == 3000

MaxRequestsSleep == 5000

RequestsSleeps == {MinRequestsSleep, MaxRequestsSleep}

Max(a, b) == IF a >= b THEN a ELSE b

\* base_delay = max(0.5, base_delay * 0.8)
DelayAfterSuccess(b) == Max(MinDelay, (b * 8) \div 10)

\* base_delay = min(max_delay, base_delay * 1.5)
DelayAfterNoTweets(b) == Min(MaxDelay, (b * 15) \div 10)

\* base_delay = min(max_delay, base_delay * 1.2)
DelayAfterException(b) == Min(MaxDelay, (b * 12) \div 10)

\* The delay scrape_all_accounts sleeps after account i (counted from 0).
ChosenDelay(streak, successful, i, base) ==
    IF streak >= 3 THEN Max(MinDelay, base)
    ELSE IF successful = 0 /\ i >= 2 THEN Min(MaxDelay, base * 2)
    ELSE base

\* The versions whose account loop has a try/except around one account.
CatchesInLoop(v) == CatchesPerAccount(v) \/ v = "scrapfly"

\* The account loop calls get_user_tweets / scrape_user_timeline for the next
\* account of the list.
ScrapeAccount ==
    /\ mpc = "accounts"
    /\ acct < NumAccounts
    /\ mpc' = "scraping"
    /\ events' = Append(events, Ev("start", AccountAt(acct + 1)))
    /\ UNCHANGED <<version, now, probeVars, dateVars, filterVars, env_ok,
                   backends, acct, all_tweets, successful_accounts, summary,
                   slack_log, raised, api_result>>
    /\ UNCHANGED <<rateVars, otherExt>>

\* The rest of the iteration.  The call returns k tweets, or the processing
\* of the account raises into the handler inside the loop.  In the agent, the
\* root and the nitter version the call may have run the selection again and
\* left another instance or None; the cooldown deadlines of those selections
\* are those of SpecProbe and nothing in main reads them.  The requests-based
\* versions sleep after the try/except; scrape_all_accounts sleeps inside the
\* try, before every account but the last, and its handler ends in continue.
AccountReturns ==
    /\ mpc = "scraping"
    /\ \E k \in 0..MaxTweetsPerAccount, raises \in BOOLEAN, d \in RequestsSleeps :
        LET a == AccountAt(acct + 1)
            successful == IF k > 0 THEN successful_accounts + 1
                          ELSE successful_accounts
            streak == IF k > 0 THEN success_streak + 1 ELSE 0
            base == IF raises THEN DelayAfterException(base_delay)
                    ELSE IF k > 0 THEN DelayAfterSuccess(base_delay)
                    ELSE DelayAfterNoTweets(base_delay)
        IN  /\ raises => (CatchesInLoop(version) /\ k = 0)
            /\ all_tweets' = all_tweets + k
            /\ successful_accounts' = successful
            /\ events' = Append(events, Ev("end", a))
            /\ IF version = "scrapfly"
               THEN /\ d = MinRequestsSleep
                    /\ base_delay' = base
                    /\ success_streak' = streak
                    /\ slept' = IF ~raises /\ acct + 1 < NumAccounts
                                THEN ChosenDelay(streak, successful, acct, base)
                                ELSE 0
               ELSE /\ slept' = d
                    /\ UNCHANGED <<base_delay, success_streak>>
    /\ \E ci \in Instances \cup {None} :
        /\ version \in {"scripts", "scrapfly"} => ci = current_instance
        /\ current_instance' = ci
    /\ acct' = acct + 1
    /\ mpc' = "accounts"
    /\ UNCHANGED <<version, now, instance_retry_delays, ppc, idx, approach,
                   probe_log, nreq, last_resp, dateVars, filterVars, env_ok,
                   backends, summary, slack_log, raised, api_result>>
    /\ UNCHANGED otherExt

\* After the last account: the agent and the root version return when no
\* tweet was collected.
AccountsDone ==
    /\ mpc = "accounts"
    /\ acct = NumAccounts
    /\ mpc' = IF all_tweets = 0 /\ ReturnsWithoutTweets(version)
              THEN "done" ELSE "summarize"
    /\ UNCHANGED <<version, now, probeVars, dateVars, filterVars, env_ok,
                   backends, acct, all_tweets, successful_accounts, summary,
                   slack_log, raised, api_result>>
    /\ UNCHANGED extVars

\* summary = generate_summary(all_tweets), or the canned text without tweets.
Summarize ==
    /\ mpc = "summarize"
    /\ IF all_tweets > 0
       THEN \E api \in ApiOutcomes :
               /\ api_result' = api
               /\ summary' = GenerateSummary(version, api)
       ELSE /\ summary' = NoTweetsSummary(version)
            /\ UNCHANGED api_result
    /\ mpc' = "send"
    /\ UNCHANGED <<version, now, probeVars, dateVars, filterVars, env_ok,
                   backends, acct, all_tweets, successful_accounts, slack_log,
                   raised>>
    /\ events' = Append(events, Ev("summarize", 0))
    /\ UNCHANGED <<rateVars, otherExt>>

\* send_to_slack(message): the post may fail, send_to_slack catches that and
\* returns False, main logs it.
SendToSlack ==
    /\ mpc = "send"
    /\ \E ok \in BOOLEAN :
        slack_log' = Append(slack_log,
                            [via |-> "send_to_slack", kind |-> summary.kind,
                             empty |-> MessageEmpty(version, summary),
                             delivered |-> ok])
    /\ mpc' = IF version = "scrapfly" THEN "exit" ELSE "done"
    /\ UNCHANGED <<version, now, probeVars, dateVars, filterVars, env_ok,
                   backends, acct, all_tweets, successful_accounts, summary,
                   raised, api_result>>
    /\ events' = Append(events, Ev("post", 0))
    /\ UNCHANGED <<rateVars, otherExt>>

\* __aexit__ at the end of the async with block (scrapfly version), after the
\* post: await self.browser.close() and await self.playwright.stop() return,
\* or one of them raises inside main's try block.
AsyncExit ==
    /\ mpc = "exit"
    /\ \E raises \in BOOLEAN :
        mpc' = IF raises THEN "handler" ELSE "done"
    /\ UNCHANGED <<version, now, probeVars, dateVars, filterVars, env_ok,
                   backends, acct, all_tweets, successful_accounts, summary,
                   slack_log, raised, api_result>>
    /\ UNCHANGED extVars

\* An exception that nothing below main caught reaches main's except clause.
\* The calls of the try block catch what they raise, so this is a failure of
\* the runtime.
MainFault ==
    /\ mpc \in {"range", "accounts", "scraping", "summarize"}
    /\ mpc' = "handler"
    /\ UNCHANGED <<version, now, probeVars, dateVars, filterVars, env_ok,
                   backends, acct, all_tweets, successful_accounts, summary,
                   slack_log, raised, api_result>>
    /\ UNCHANGED extVars

\* except Exception: logger.error(...); raise  (agent, root)
HandlerReraise ==
    /\ mpc = "handler"
    /\ Reraises(version)
    /\ raised' = TRUE
    /\ mpc' = "done"
    /\ UNCHANGED <<version, now, probeVars, dateVars, filterVars, env_ok,
                   backends, acct, all_tweets, successful_accounts, summary,
                   slack_log, api_result>>
    /\ UNCHANGED extVars

\* except Exception: error_scraper = TweetScraper()  (scripts/ versions)
HandlerNewScraper ==
    /\ mpc = "handler"
    /\ CatchesPerAccount(version)
    /\ mpc' = "handler_construct"
    /\ instance_retry_delays' = [i \in Instances |-> NoDelay]
    /\ current_instance' = None
    /\ BeginSelection
    /\ UNCHANGED <<version, now, dateVars, filterVars, env_ok, backends, acct,
                   all_tweets, successful_accounts, summary, slack_log, raised,
                   api_result>>
    /\ UNCHANGED extVars

\* error_scraper.send_to_slack(error_message)
HandlerAlert ==
    /\ mpc = "handler_construct"
    /\ ppc = "done"
    /\ \E ok \in BOOLEAN :
        slack_log' = Append(slack_log,
                            [via |-> "send_to_slack", kind |-> "error_alert",
                             empty |-> FALSE, delivered |-> ok])
    /\ mpc' = "done"
    /\ UNCHANGED <<version, now, probeVars, dateVars, filterVars, env_ok,
                   backends, acct, all_tweets, successful_accounts, summary,
                   raised, api_result>>
    /\ events' = Append(events, Ev("alert", 0))
    /\ UNCHANGED <<rateVars, otherExt>>

\* except Exception: requests.post(webhook_url, json=error_payload) inside
\* try / bare except  (scrapfly version)
HandlerPost ==
    /\ mpc = "handler"
    /\ version = "scrapfly"
    /\ \E ok \in BOOLEAN :
        slack_log' = Append(slack_log,
                            [via |-> "requests.post", kind |-> "error_alert",
                             empty |-> FALSE, delivered |-> ok])
    /\ mpc' = "done"
    /\ UNCHANGED <<version, now, probeVars, dateVars, filterVars, env_ok,
                   backends, acct, all_tweets, successful_accounts, summary,
                   raised, api_result>>
    /\ events' = Append(events, Ev("alert", 0))
    /\ UNCHANGED <<rateVars, otherExt>>

InitMain ==
    /\ version \in Versions
    /\ now = 2 * SecondsPerDay + 12 * 3600
    /\ ProbeIdle
    /\ DateIdle
    /\ FilterIdle
    /\ mpc = "start"
    /\ env \in MainEnvs
    /\ env_ok = (RequiredVars(version) \subseteq env)
    /\ backends \in (IF version = "scrapfly" THEN SUBSET Backends ELSE {{}})
    /\ acct = 0
    /\ all_tweets = 0
    /\ successful_accounts = 0
    /\ summary = NoSummary
    /\ slack_log = <<>>
    /\ raised = FALSE
    /\ api_result = "none"
    /\ ExtIdle

NextMain ==
    \/ MainStart
    \/ ProbeInstance
    \/ SelectionExhausted
    \/ ConstructorReturns
    \/ ScrapflyEnter
    \/ MainDateRange
    \/ ScrapeAccount
    \/ AccountReturns
    \/ AccountsDone
    \/ Summarize
    \/ SendToSlack
    \/ AsyncExit
    \/ MainFault
    \/ HandlerReraise
    \/ HandlerNewScraper
    \/ HandlerAlert
    \/ HandlerPost

SpecMain == InitMain /\ [][NextMain]_vars

---------------------------------------------------------------------------
(* The date functions and the filter on their own *)

InitDate ==
    /\ version \in NitterVersions
    /\ now \in NowSamples
    /\ ProbeIdle
    /\ DateIdle
    /\ FilterIdle
    /\ MainIdle
    /\ env = EnvVars
    /\ ExtIdle

NextDate ==
    \/ DateRangeCall
    \/ ParseCall

SpecDate == InitDate /\ [][NextDate]_vars

InitFilter ==
    /\ version \in NitterVersions
    /\ now \in NowSamples
    /\ ProbeIdle
    /\ DateIdle
    /\ page \in Pages(version, now)
    /\ cidx = 0
    /\ tweets = <<>>
    /\ MainIdle
    /\ env = EnvVars
    /\ ExtIdle

NextFilter ==
    \/ DateRangeCall
    \/ FetchPage
    \/ ProcessContainer

SpecFilter == InitFilter /\ [][NextFilter]_vars

---------------------------------------------------------------------------
(* generate_summary and generate_manual_summary *)

\* The longest tweet list the model hands to generate_summary.
MaxListLen == 26

\* tweets[:20] (agent, root) and tweets[:25] (scripts/ versions) in the prompt.
PromptLimitAgent == 20

PromptLimitScripts == 25

PromptLimit(v) ==
    IF v \in {"agent", "root"} THEN PromptLimitAgent ELSE PromptLimitScripts

\* for tweet in tweets[:20] of generate_manual_summary (Nitter versions).
ManualLimit == 20

\* How many tweets generate_manual_summary looks at: the Scrapfly version
\* loops over all of them.
Considered(v, n) == IF v = "scrapfly" THEN n ELSE Min(ManualLimit, n)

\* The versions that have a generate_manual_summary.
HasManualSummary(v) == v \in {"scripts", "nitter", "scrapfly"}

\* A tweet, as far as the summary functions look at it: the categories of
\* the topics table one of whose keywords occurs in the lower-cased text.
\* Its position in the list stands for its text.
TweetKinds == SUBSET Categories

\* The kinds the long lists of the model alternate between.
LongListKinds == {{}, {1}, {2, 4}, {NumCategories}, Categories}

\* The lists the model summarizes: every list of up to two tweets, and longer
\* lists that alternate between two kinds.
TweetLists ==
    {<<>>}
    \cup {<<a>> : a \in TweetKinds}
    \cup {<<a, b>> : a \in TweetKinds, b \in TweetKinds}
    \cup {[i \in 1..n |-> IF i % 2 = 1 THEN a ELSE b] :
              n \in 3..MaxListLen, a \in LongListKinds, b \in LongListKinds}

Positions(n) == [i \in 1..n |-> i]

\* The whole list.
TakeAll(seq, n) == seq

\* seq[:n]
Take(seq, n) == SubSeq(seq, 1, Min(n, Len(seq)))

\* What generate_summary returns for an empty list: the demo summary
\* (scripts), a no-tweets text (every other version).
EmptyListSummary(v) ==
    [kind |-> IF v = "scripts" THEN "demo" ELSE "no_tweets", empty |-> FALSE]

\* The last category with a keyword in the tweet.
RECURSIVE LastCategory(_, _)
LastCategory(kw, c) ==
    IF c > NumCategories THEN 0
    ELSE LET later == LastCategory(kw, c + 1)
         IN  IF later # 0 THEN later ELSE IF c \in kw THEN c ELSE 0

\* for category, keywords in topics.items(): if any(keyword in tweet_lower
\* ...): ...; break  -- the first category from c on with a keyword in the
\* tweet, 0 when there is none.
RECURSIVE FirstCategory(_, _)
FirstCategory(kw, c) ==
    IF c > NumCategories THEN 0
    ELSE IF c \in kw THEN c
    ELSE FirstCategory(kw, c + 1)

\* A call of generate_summary(tweet_list).  The Scrapfly version sends the
\* request only with a client, which exists only with OPENAI_API_KEY set; the
\* Nitter versions use the client or the legacy API; the agent and the root
\* version always send.  On an exception (or without a client) the scripts/
\* versions go on into generate_manual_summary.
SummaryCall ==
    /\ spc = "idle"
    /\ LET n == Len(tweet_list)
       IN  IF n = 0
           THEN /\ summary' = EmptyListSummary(version)
                /\ prompt' = <<>>
                /\ api_requests' = 0
                /\ spc' = "returned"
                /\ UNCHANGED <<api_result, kidx>>
           ELSE \E client \in BOOLEAN, api \in ApiOutcomes :
                   LET sends == version # "scrapfly" \/ client
                       manual == HasManualSummary(version) /\ (~sends \/ api = "raise")
                   IN  /\ client => "OPENAI_API_KEY" \in env
                       /\ prompt' = Take(Positions(n), PromptLimit(version))
                       /\ api_requests' = IF sends THEN 1 ELSE 0
                       /\ api_result' = IF sends THEN api ELSE "none"
                       /\ spc' = IF manual THEN "manual" ELSE "returned"
                       /\ kidx' = IF manual THEN 1 ELSE kidx
                       /\ summary' = IF manual THEN summary
                                     ELSE GenerateSummary(version, api)
    /\ categorized' = NoCategorized
    /\ UNCHANGED <<version, now, probeVars, dateVars, filterVars, mpc, env_ok,
                   backends, acct, all_tweets, successful_accounts, slack_log,
                   raised, env, moreVars, events, rateVars, tweet_list, slackVars,
                   timelineVars, recentVars, loopVars>>

\* One iteration of the loop of generate_manual_summary over the tweets.
ManualStep ==
    /\ spc = "manual"
    /\ kidx <= Considered(version, Len(tweet_list))
    /\ LET c == FirstCategory(tweet_list[kidx], 1)
       IN  categorized' = IF c = 0 THEN categorized
                          ELSE [categorized EXCEPT ![c] = Append(@, kidx)]
    /\ kidx' = kidx + 1
    /\ UNCHANGED <<coreVars, env, moreVars, events, rateVars, tweet_list, prompt,
                   api_requests, spc, slackVars, timelineVars, recentVars, loopVars>>

\* generate_manual_summary returns its text, and generate_summary returns it.
ManualReturn ==
    /\ spc = "manual"
    /\ kidx > Considered(version, Len(tweet_list))
    /\ summary' = [kind |-> "manual", empty |-> FALSE]
    /\ spc' = "returned"
    /\ UNCHANGED <<version, now, probeVars, dateVars, filterVars, mpc, env_ok,
                   backends, acct, all_tweets, successful_accounts, slack_log,
                   raised, api_result, env, moreVars, events, rateVars, tweet_list, prompt,
                   api_requests, kidx, categorized, slackVars, timelineVars,
                   recentVars, loopVars>>

InitSummary ==
    /\ version \in Versions
    /\ now = 0
    /\ ProbeIdle
    /\ DateIdle
    /\ FilterIdle
    /\ MainIdle
    /\ env \in {EnvVars, EnvVars \ {"OPENAI_API_KEY"}}
    /\ events = <<>>
    /\ base_delay = InitialDelay
    /\ success_streak = 0
    /\ slept = 0
    /\ tweet_list \in TweetLists
    /\ prompt = <<>>
    /\ api_requests = 0
    /\ spc = "idle"
    /\ kidx = 0
    /\ categorized = NoCategorized
    /\ SlackIdle
    /\ TimelineIdle
    /\ RecentIdle
    /\ LoopIdle
    /\ MoreIdle

NextSummary ==
    \/ SummaryCall
    \/ ManualStep
    \/ ManualReturn

SpecSummary == InitSummary /\ [][NextSummary]_vars

---------------------------------------------------------------------------
(* send_to_slack *)

\* The messages the model hands to send_to_slack.
Messages == {"summary", "error alert", ""}

\* The statuses the webhook answers with in the model.
PostStatuses == {200, 204, 302, 404, 500}

\* requests.post raised instead of answering.
PostRaised == -1

PostOutcomes == PostStatuses \cup {PostRaised}

\* The title line of the payload.
Header(v) ==
    IF v = "scrapfly" THEN "AI Business Week Summary" ELSE "Daily AI Summary"

\* payload = {"text": f"*<title> - <date>*\n\n{message}", "mrkdwn": True};
\* the text is kept as the sequence of its parts.
Payload(v, msg) == [text |-> <<Header(v), msg>>, mrkdwn |-> TRUE]

\* Every 2xx status counts as delivered.
DeliveredAny2xx(status) == status \div 100 = 2

\* if response.status_code == 200: return True
Delivered(status) == status = 200

\* A call of send_to_slack(send_msg).
SendToSlackCall ==
    /\ send_ret = "none"
    /\ IF "SLACK_WEBHOOK_URL" \notin env
       THEN /\ send_ret' = "False"
            /\ UNCHANGED posts
       ELSE \E r \in PostOutcomes :
               /\ posts' = Append(posts, [body |-> Payload(version, send_msg),
                                          outcome |-> r])
               /\ send_ret' = IF r # PostRaised /\ Delivered(r)
                              THEN "True" ELSE "False"
    /\ UNCHANGED <<coreVars, env, moreVars, events, rateVars, summaryVars, send_msg,
                   timelineVars, recentVars, loopVars>>

InitSlack ==
    /\ version \in Versions
    /\ now = 0
    /\ ProbeIdle
    /\ DateIdle
    /\ FilterIdle
    /\ MainIdle
    /\ env \in SUBSET EnvVars
    /\ events = <<>>
    /\ base_delay = InitialDelay
    /\ success_streak = 0
    /\ slept = 0
    /\ SummaryIdle
    /\ send_msg \in Messages
    /\ send_ret = "none"
    /\ posts = <<>>
    /\ TimelineIdle
    /\ RecentIdle
    /\ LoopIdle
    /\ MoreIdle

NextSlack == SendToSlackCall

SpecSlack == InitSlack /\ [][NextSlack]_vars

---------------------------------------------------------------------------
(* scrape_user_timeline of the Scrapfly version *)

\* The most tweets the XHR calls of one page hold in the model.
MaxRaw == 3

\* The max_tweets arguments of the model (the callers pass 5, 10 and 20).
MaxTweetsArgs == {1, 2, 20}

\* The statuses Scrapfly answers with in the model.
ScrapeStatuses == {200, 403, 429, 500}

\* How the Scrapfly path can go: an exception before or after the answer, an
\* answer with another status, or an answer with raw tweets in its XHR
\* calls of which unique ones have an id not seen before.
ScrapeOutcomes ==
    {[exc |-> TRUE, status |-> st, raw |-> 0, unique |-> 0] : st \in {0, 200}}
    \cup {[exc |-> FALSE, status |-> st, raw |-> 0, unique |-> 0] :
              st \in ScrapeStatuses}
    \cup {[exc |-> FALSE, status |-> 200, raw |-> r, unique |-> u] :
              r \in 1..MaxRaw, u \in 0..MaxRaw}

\* How the Playwright scrape can go: goto raises, wait_for_selector times
\* out, or the page is read.
PlaywrightOutcomes == {"exception", "timeout", "read"}

\* Only another status makes the Scrapfly path fall back.
FallsBackOnStatusOnly(o) == o.status # 200

\* The Scrapfly path falls back to Playwright: except Exception, status_code
\* != 200, or not tweets.
FallsBack(o) == o.exc \/ o.status # 200 \/ o.raw = 0

\* scrape_user_timeline calls scrape_user_timeline_scrapfly, which goes to
\* Playwright at once without the SDK or without the key.
TimelineCall ==
    /\ tpc = "idle"
    /\ IF "scrapfly" \in backends /\ "SCRAPFLY_API_KEY" \in env
       THEN /\ tpc' = "scrapfly"
            /\ tl_calls' = Append(tl_calls, "scrapfly")
       ELSE /\ tpc' = "playwright"
            /\ tl_calls' = Append(tl_calls, "playwright")
    /\ UNCHANGED <<coreVars, env, moreVars, events, rateVars, summaryVars, slackVars,
                   max_tweets, sf, pw, tl_result, recentVars, loopVars>>

\* The try block of scrape_user_timeline_scrapfly and its except clause.
ScrapflyScrape ==
    /\ tpc = "scrapfly"
    /\ \E o \in ScrapeOutcomes :
        /\ o.unique <= o.raw
        /\ sf' = o
        /\ IF FallsBack(o)
           THEN /\ tpc' = "playwright"
                /\ tl_calls' = Append(tl_calls, "playwright")
                /\ UNCHANGED tl_result
           ELSE /\ tpc' = "returned"
                /\ tl_result' = Min(o.unique, max_tweets)
                /\ UNCHANGED tl_calls
    /\ UNCHANGED <<coreVars, env, moreVars, events, rateVars, summaryVars, slackVars,
                   max_tweets, pw, recentVars, loopVars>>

\* scrape_user_timeline_playwright: [] after an exception or the timeout of
\* the selector, else tweets[:max_tweets].
PlaywrightScrape ==
    /\ tpc = "playwright"
    /\ \E o \in PlaywrightOutcomes, n \in 0..MaxRaw :
        /\ o # "read" => n = 0
        /\ pw' = o
        /\ tl_result' = Min(n, max_tweets)
    /\ tpc' = "returned"
    /\ UNCHANGED <<coreVars, env, moreVars, events, rateVars, summaryVars, slackVars,
                   max_tweets, tl_calls, sf, recentVars, loopVars>>

\* The calls are made on a scraper whose __aenter__ has returned, so Playwright
\* is installed.
InitTimeline ==
    /\ version = "scrapfly"
    /\ now = 0
    /\ ProbeIdle
    /\ DateIdle
    /\ FilterIdle
    /\ mpc = "idle"
    /\ env_ok = TRUE
    /\ backends \in {b \in SUBSET Backends : "playwright" \in b}
    /\ acct = 0
    /\ all_tweets = 0
    /\ successful_accounts = 0
    /\ summary = NoSummary
    /\ slack_log = <<>>
    /\ raised = FALSE
    /\ api_result = "none"
    /\ env \in SUBSET EnvVars
    /\ events = <<>>
    /\ base_delay = InitialDelay
    /\ success_streak = 0
    /\ slept = 0
    /\ SummaryIdle
    /\ SlackIdle
    /\ tpc = "idle"
    /\ max_tweets \in MaxTweetsArgs
    /\ tl_calls = <<>>
    /\ sf = NoScrape
    /\ pw = "none"
    /\ tl_result = -1
    /\ RecentIdle
    /\ LoopIdle
    /\ MoreIdle

NextTimeline ==
    \/ TimelineCall
    \/ ScrapflyScrape
    \/ PlaywrightScrape

SpecTimeline == InitTimeline /\ [][NextTimeline]_vars

---------------------------------------------------------------------------
(* is_tweet_recent *)

\* timedelta(hours=120)
RecentHours == 120

MsPerHour == 3600000

Cutoff == RecentHours * MsPerHour

\* A whole second, seven days after the epoch.
BaseInstant == 7 * 24 * MsPerHour

\* The clock readings of the model: on the second, half a second later, half
\* a day later.
RecentNows == {BaseInstant, BaseInstant + 500, BaseInstant + 12 * MsPerHour}

\* Ages of the tweets against BaseInstant: from the future, just written,
\* around the cutoff, six days old.
AgeSamples ==
    {0 - MsPerHour, 0, 1000, Cutoff - 1000, Cutoff, Cutoff + 1000,
     Cutoff + 12 * MsPerHour, 144 * MsPerHour}

\* UTC offsets a %z field is written with in the model.
Offsets == {0, MsPerHour, 0 - 5 * MsPerHour}

\* The created_at values of the model.
CreatedAtValues ==
    {CreatedAt(k, 0, 0) : k \in {"missing", "empty", "garbage", "iso", "number"}}
    \cup {CreatedAt("twitter", (BaseInstant - a) + o, o) :
              a \in AgeSamples, o \in Offsets}

\* The comparison without the boundary.
StrictlyNewer(t, cutoff) == t > cutoff

\* is_recent = tweet_date >= cutoff_time
NotOlder(t, cutoff) == t >= cutoff

\* datetime.strptime(created_at, "%a %b %d %H:%M:%S %z %Y"): the instant of
\* an aware datetime is its wall-clock time less its offset.
StrptimeTwitter(c) == c.local - c.offset

\* is_tweet_recent: False for a missing or falsy created_at, False from the
\* except clause when strptime raises, else the comparison with the cutoff.
IsTweetRecent(c, t) ==
    IF c.kind \in {"missing", "empty"} THEN FALSE
    ELSE IF c.kind # "twitter" THEN FALSE
    ELSE NotOlder(StrptimeTwitter(c), t - Cutoff)

\* A call of is_tweet_recent(tweet).
RecentCall ==
    /\ recent_out = "none"
    /\ recent_out' = IF IsTweetRecent(created_at, now_utc) THEN "True" ELSE "False"
    /\ UNCHANGED <<coreVars, env, moreVars, events, rateVars, summaryVars, slackVars,
                   timelineVars, created_at, now_utc, loopVars>>

InitRecent ==
    /\ version = "scrapfly"
    /\ now = 0
    /\ ProbeIdle
    /\ DateIdle
    /\ FilterIdle
    /\ MainIdle
    /\ env = EnvVars
    /\ events = <<>>
    /\ base_delay = InitialDelay
    /\ success_streak = 0
    /\ slept = 0
    /\ SummaryIdle
    /\ SlackIdle
    /\ TimelineIdle
    /\ created_at \in CreatedAtValues
    /\ now_utc \in RecentNows
    /\ recent_out = "none"
    /\ LoopIdle
    /\ MoreIdle

NextRecent == RecentCall

SpecRecent == InitRecent /\ [][NextRecent]_vars

---------------------------------------------------------------------------
(* get_user_tweets of the agent and of the root version: the page loop *)

\* max_retries = 3
MaxRetries == 3

\* max_load_more_clicks = 5
MaxLoadMoreClicks == 5

\* What a call of get_working_instance can leave behind: the instance it
\* returns (None when no probe answered 200) and the cooldowns it recorded for
\* instances it probed before that one.  An instance whose cooldown has not
\* expired is skipped: it is neither probed nor returned.
SelectionOutcomes(delays) ==
    {[inst |-> r,
      delays |-> [i \in Instances |->
                     IF i \in marked THEN now + ProbeCooldown(version)
                     ELSE delays[i]]] :
        r \in {i \in Instances : ~InCooldown(delays, i, now)} \cup {None},
        marked \in SUBSET {i \in Instances : ~InCooldown(delays, i, now)}}

\* The outcomes in which only instances walked before the returned one got a
\* cooldown.
Selections(delays) ==
    {o \in SelectionOutcomes(delays) :
        \A i \in Instances :
            o.delays[i] # delays[i] => (o.inst = None \/ i < o.inst)}

\* time.sleep(30 * (2 ** retry_count)), the exponential backoff of the agent,
\* in seconds.  The sleeps of 5 to 10 seconds between two requests are short
\* against the cooldowns and the clock of the model does not count them.
BackoffBase == 30

Backoff(n) == BackoffBase * (2 ^ n)

\* How the request for the user's page can fail without raising.
PageFailures == {"health_check", "rate_limited", "status"}

\* The show-more element of a fetched page: none, one without a link, one
\* with a link.
ShowMore == {"none", "no_href", "link"}

\* The timelines the calls are run on: len pages, each but the last with a
\* show-more link to the next; the last page has no show-more element or one
\* without a link; the pages of window hold a tweet of the date range; a bare
\* timeline's only page has no tweet container at all.
Timelines ==
    {t \in [len : {1, MaxPages}, last : {"none", "no_href"},
            window : {{}, {0}}, bare : BOOLEAN] :
        t.bare => (t.window = {} /\ t.len = 1)}

\* soup.find('div', class_='show-more') of page p.
ShowMoreOf(p) == IF p < timeline.len - 1 THEN "link" ELSE timeline.last

\* url = load_more_url if load_more_url else base_url
RequestedUrl ==
    IF load_more_url # NoUrl THEN load_more_url
    ELSE [inst |-> current_instance, page |-> 0]

\* session.get(url): the request goes to the instance the URL names.
Request ==
    [inst |-> RequestedUrl.inst, page |-> RequestedUrl.page,
     cooling |-> InCooldown(instance_retry_delays, RequestedUrl.inst, now)]

CursorPages == IF RequestedUrl.page > cursor_pages THEN RequestedUrl.page
               ELSE cursor_pages

\* while retry_count < max_retries (agent), while load_more_clicks <
\* max_load_more_clicks (root), left because the condition is false.
WhileExit ==
    /\ gpc = "while"
    /\ IF version = "agent" THEN retry_count >= MaxRetries
       ELSE load_more_clicks >= MaxLoadMoreClicks
    /\ gpc' = "returned"
    /\ UNCHANGED <<coreVars, events, rateVars, env, moreVars, summaryVars, slackVars,
                   timelineVars, recentVars, retry_count, last_working_instance,
                   load_more_url, load_more_clicks, found_tweets_in_range,
                   traceVars>>

\* The root version enters the loop body with the instance it has.
LoopEnter ==
    /\ gpc = "while"
    /\ version = "root"
    /\ load_more_clicks < MaxLoadMoreClicks
    /\ gpc' = "get"
    /\ UNCHANGED <<coreVars, events, rateVars, env, moreVars, summaryVars, slackVars,
                   timelineVars, recentVars, retry_count, last_working_instance,
                   load_more_url, load_more_clicks, found_tweets_in_range,
                   traceVars>>

\* if last_working_instance and last_working_instance not in
\* self.instance_retry_delays: self.current_instance = last_working_instance
UseLastInstance ==
    /\ gpc = "while"
    /\ version = "agent"
    /\ retry_count < MaxRetries
    /\ last_working_instance # None
    /\ instance_retry_delays[last_working_instance] = NoDelay
    /\ current_instance' = last_working_instance
    /\ gpc' = "get"
    /\ UNCHANGED <<version, now, instance_retry_delays, ppc, idx, approach,
                   probe_log, nreq, last_resp, dateVars, filterVars, mainVars>>
    /\ UNCHANGED <<events, rateVars, env, moreVars, summaryVars, slackVars, timelineVars,
                   recentVars, retry_count, last_working_instance, load_more_url,
                   load_more_clicks, found_tweets_in_range, traceVars>>

\* else: self.current_instance = self.get_working_instance(); break without
\* an instance.
SelectInstance ==
    /\ gpc = "while"
    /\ version = "agent"
    /\ retry_count < MaxRetries
    /\ IF last_working_instance = None THEN TRUE
       ELSE instance_retry_delays[last_working_instance] # NoDelay
    /\ \E o \in Selections(instance_retry_delays) :
        /\ current_instance' = o.inst
        /\ instance_retry_delays' = o.delays
        /\ gpc' = IF o.inst = None THEN "returned" ELSE "get"
    /\ UNCHANGED <<version, now, ppc, idx, approach, probe_log, nreq, last_resp,
                   dateVars, filterVars, mainVars>>
    /\ UNCHANGED <<events, rateVars, env, moreVars, summaryVars, slackVars, timelineVars,
                   recentVars, retry_count, last_working_instance, load_more_url,
                   load_more_clicks, found_tweets_in_range, traceVars>>

\* The page request is answered, but not with a page.  Agent: a redirect to
\* the health check, a 429 (self.current_instance gets its cooldown) or
\* another status than 200; the selection runs again and retry_count grows
\* only when it finds no instance.  Root: any status but 200; the selection
\* runs again and the loop is left when it finds no instance.
PageFails ==
    /\ gpc = "get"
    /\ \E f \in PageFailures :
        /\ version = "root" => f # "health_check"
        /\ LET delays == IF f = "rate_limited" /\ version = "agent"
                         THEN [instance_retry_delays EXCEPT
                                  ![current_instance] = now + PageCooldown(version)]
                         ELSE instance_retry_delays
           IN  \E o \in Selections(delays) :
                   /\ current_instance' = o.inst
                   /\ instance_retry_delays' = o.delays
                   /\ retry_count' = IF o.inst = None /\ version = "agent"
                                     THEN retry_count + 1
                                     ELSE retry_count
                   /\ now' = IF o.inst = None /\ version = "agent"
                             THEN now + Backoff(retry_count + 1)
                             ELSE now
                   /\ gpc' = IF o.inst = None /\ version = "root"
                             THEN "returned" ELSE "while"
    /\ last_request' = Request
    /\ cursor_pages' = CursorPages
    /\ UNCHANGED <<version, ppc, idx, approach, probe_log, nreq, last_resp,
                   dateVars, filterVars, mainVars>>
    /\ UNCHANGED <<events, rateVars, env, moreVars, summaryVars, slackVars, timelineVars,
                   recentVars, last_working_instance, load_more_url,
                   load_more_clicks, found_tweets_in_range, timeline, copies>>

\* except Exception.  Agent: retry_count += 1; break at max_retries, sleep
\* and continue below it.  Root: break.
PageRaises ==
    /\ gpc = "get"
    /\ retry_count' = IF version = "agent" THEN retry_count + 1 ELSE retry_count
    /\ gpc' = IF version = "root" \/ retry_count + 1 >= MaxRetries
              THEN "returned" ELSE "while"
    /\ now' = IF version = "agent" /\ retry_count + 1 < MaxRetries
              THEN now + Backoff(retry_count + 1)
              ELSE now
    /\ UNCHANGED <<version, probeVars, dateVars, filterVars, mainVars>>
    /\ UNCHANGED <<events, rateVars, env, moreVars, summaryVars, slackVars,
                   timelineVars, recentVars, last_working_instance,
                   load_more_url, load_more_clicks, found_tweets_in_range,
                   traceVars>>

\* tweets.append(f"@{username}: {tweet_text}") for the tweet of the page that
\* is in the date range.
AppendTweet(p) ==
    IF p \in timeline.window /\ copies[p] < MaxCopies
    THEN [copies EXCEPT ![p] = @ + 1]
    ELSE copies

\* The agent's request answers 200 and the page is read: its tweets, its
\* show-more element, and the break at the end of the iteration.
PageRead ==
    /\ gpc = "get"
    /\ version = "agent"
    /\ last_working_instance' = current_instance
    /\ LET p == RequestedUrl.page
           show == ShowMoreOf(p)
           found == found_tweets_in_range \/ p \in timeline.window
           url == CASE show = "link" ->
                           [inst |-> current_instance, page |-> p + 1]
                    [] show = "none" -> NoUrl
                    [] OTHER -> load_more_url
           clicks == show = "link" /\ load_more_clicks < MaxLoadMoreClicks
       IN  /\ found_tweets_in_range' = found
           /\ load_more_url' = url
           /\ load_more_clicks' = IF clicks THEN load_more_clicks + 1
                                  ELSE load_more_clicks
           /\ copies' = AppendTweet(p)
           /\ gpc' = IF ~clicks /\ ~found /\ url = NoUrl THEN "returned"
                     ELSE "while"
    /\ last_request' = Request
    /\ cursor_pages' = CursorPages
    /\ UNCHANGED <<coreVars, events, rateVars, env, moreVars, summaryVars, slackVars,
                   timelineVars, recentVars, retry_count, timeline>>

\* The root version's request answers 200 and the page is read: break without
\* tweet containers, continue behind a show-more link, break otherwise.
PageReadRoot ==
    /\ gpc = "get"
    /\ version = "root"
    /\ LET p == RequestedUrl.page
           follows == ~(timeline.bare /\ p = 0) /\ ShowMoreOf(p) = "link"
       IN  /\ copies' = AppendTweet(p)
           /\ load_more_url' = IF follows
                               THEN [inst |-> current_instance, page |-> p + 1]
                               ELSE load_more_url
           /\ load_more_clicks' = IF follows THEN load_more_clicks + 1
                                  ELSE load_more_clicks
           /\ gpc' = IF follows THEN "while" ELSE "returned"
    /\ last_request' = Request
    /\ cursor_pages' = CursorPages
    /\ UNCHANGED <<coreVars, events, rateVars, env, moreVars, summaryVars, slackVars,
                   timelineVars, recentVars, retry_count, last_working_instance,
                   found_tweets_in_range, timeline>>

\* A call of get_user_tweets on a scraper whose constructor found an instance
\* and recorded no cooldown.
InitTweets ==
    /\ version \in {"agent", "root"}
    /\ now = 0
    /\ current_instance \in Instances
    /\ instance_retry_delays = [i \in Instances |-> NoDelay]
    /\ ppc = "idle"
    /\ idx = 1
    /\ approach = 1
    /\ probe_log = FreshLog
    /\ nreq = 0
    /\ last_resp = NoResp
    /\ DateIdle
    /\ FilterIdle
    /\ MainIdle
    /\ env = EnvVars
    /\ events = <<>>
    /\ base_delay = InitialDelay
    /\ success_streak = 0
    /\ slept = 0
    /\ SummaryIdle
    /\ SlackIdle
    /\ TimelineIdle
    /\ RecentIdle
    /\ MoreIdle
    /\ gpc = "while"
    /\ retry_count = 0
    /\ last_working_instance = None
    /\ load_more_url = NoUrl
    /\ load_more_clicks = 0
    /\ found_tweets_in_range = FALSE
    /\ timeline \in Timelines
    /\ last_request = NoRequest
    /\ cursor_pages = 0
    /\ copies = [p \in PagePositions |-> 0]

NextTweets ==
    \/ WhileExit
    \/ LoopEnter
    \/ UseLastInstance
    \/ SelectInstance
    \/ PageFails
    \/ PageRaises
    \/ PageRead
    \/ PageReadRoot

\* The loop takes its next step whenever it has one.
SpecTweets == InitTweets /\ [][NextTweets]_vars /\ WF_vars(NextTweets)

---------------------------------------------------------------------------
(* get_user_tweets of the scripts versions: the attempts of one call *)

\* The outcomes of session.get(url) for the user's page: a response with its
\* status (503 stands for 502, 503 and 504, 404 for every other status that is
\* not 200 or 429) or an exception.
AttemptOutcomes ==
    {HTTP_OK, HTTP_RATE_LIMITED, HTTP_UNAVAILABLE, HTTP_NOT_FOUND, AttemptRaised}

\* Every failure is retried.
RetriedAlways(v, st, n) == TRUE

\* A 502/503/504 answer and an exception are retried while attempt <
\* max_retries - 1 (nitter version); the scripts version sends one request.
Retried(v, st, n) ==
    /\ v = "nitter"
    /\ st \in {HTTP_UNAVAILABLE, AttemptRaised}
    /\ n < MaxRetries - 1

\* The call sends a request whatever current_instance is.
ReturnsAtOnceNever(inst) == FALSE

\* if not self.current_instance: return []
ReturnsAtOnce(inst) == inst = None

\* A 429 answer of the nitter version runs _find_working_source.
Reselects(v, st) == v = "nitter" /\ st = HTTP_RATE_LIMITED

\* What the body of the response that is parsed can hold: no tweet container,
\* or one whose tweet is returned.
ParsedTweets == 0..1

\* scraper.get_user_tweets(account, start_date, end_date): the call starts.
GetUserTweets ==
    /\ npc \in {"idle", "returned"}
    /\ ncalls < MaxCalls
    /\ ncalls' = ncalls + 1
    /\ attempt' = 0
    /\ page_requests' = 0
    /\ n_tweets' = 0
    /\ IF ReturnsAtOnce(current_instance)
       THEN npc' = "returned" /\ n_result' = "empty"
       ELSE npc' = "attempt" /\ n_result' = "none"
    /\ UNCHANGED <<coreVars, events, rateVars, env, summaryVars, slackVars,
                   timelineVars, recentVars, loopVars, xhrVars, capVars,
                   requested, run_requests, run_probes>>

\* One iteration of `for attempt in range(max_retries)` (nitter) or the one
\* request of the scripts version, with what follows the loop: the response
\* the loop was left with is parsed.
PageAttempt ==
    /\ npc = "attempt"
    /\ \E st \in AttemptOutcomes :
        LET old == current_instance
            delays == IF Reselects(version, st)
                      THEN [instance_retry_delays EXCEPT
                               ![old] = now + PageCooldown(version)]
                      ELSE instance_retry_delays
            outcomes == IF Reselects(version, st) THEN Selections(delays)
                        ELSE {[inst |-> old, delays |-> delays]}
        IN  \E o \in outcomes, k \in ParsedTweets :
                LET switched == o.inst # None /\ o.inst # old
                    again == \/ Retried(version, st, attempt)
                             \/ /\ Reselects(version, st)
                                /\ switched
                                /\ attempt < MaxRetries - 1
                    parses == \/ st = HTTP_OK
                              \/ /\ Reselects(version, st)
                                 /\ switched
                                 /\ attempt >= MaxRetries - 1
                IN  /\ parses \/ k = 0
                    /\ current_instance' = o.inst
                    /\ instance_retry_delays' = o.delays
                    /\ run_probes' = IF Reselects(version, st)
                                     THEN run_probes + 1 ELSE run_probes
                    /\ requested' = [inst |-> old, status |-> st, at |-> now]
                    /\ attempt' = IF again THEN attempt + 1 ELSE attempt
                    /\ npc' = IF again THEN "attempt" ELSE "returned"
                    /\ n_result' = CASE again -> "none"
                                     [] parses -> "parsed"
                                     [] OTHER -> "empty"
                    /\ n_tweets' = k
    /\ page_requests' = page_requests + 1
    /\ run_requests' = run_requests + 1
    /\ UNCHANGED <<version, now, ppc, idx, approach, probe_log, nreq, last_resp,
                   dateVars, filterVars, mainVars>>
    /\ UNCHANGED <<events, rateVars, env, summaryVars, slackVars, timelineVars,
                   recentVars, loopVars, xhrVars, capVars, ncalls>>

\* MaxCalls calls of get_user_tweets on one scraper, whose constructor ran the
\* selection (with or without finding an instance), while time passes.
InitAttempts ==
    /\ version \in {"scripts", "nitter"}
    /\ now = 0
    /\ \E o \in Selections([i \in Instances |-> NoDelay]) :
        /\ current_instance = o.inst
        /\ instance_retry_delays = o.delays
    /\ ppc = "idle"
    /\ idx = 1
    /\ approach = 1
    /\ probe_log = FreshLog
    /\ nreq = 0
    /\ last_resp = NoResp
    /\ DateIdle
    /\ FilterIdle
    /\ MainIdle
    /\ env = EnvVars
    /\ events = <<>>
    /\ base_delay = InitialDelay
    /\ success_streak = 0
    /\ slept = 0
    /\ SummaryIdle
    /\ SlackIdle
    /\ TimelineIdle
    /\ RecentIdle
    /\ LoopIdle
    /\ MoreIdle

NextAttempts ==
    \/ GetUserTweets
    \/ PageAttempt
    \/ Tick

SpecAttempts == InitAttempts /\ [][NextAttempts]_vars

---------------------------------------------------------------------------
(* scrape_user_timeline_playwright: the response handlers of the shared page *)

XhrAccounts == 1..NumAccounts

\* The XHR requests of a profile page: the timeline calls, whose URL holds
\* "UserTweets" or "UserMedia", and the others.
XhrKinds == {"UserTweets", "other"}

XhrRequests == XhrAccounts \X XhrKinds

\* No XHR response of any account's page is under way.
NoPending == [r \in XhrRequests |-> 0]

IsTimelineCall(r) == r[2] = "UserTweets"

RECURSIVE TweetsOf(_)
\* The responses of xhr_calls with "UserTweets" or "UserMedia" in the URL,
\* parsed: one tweet each, of the account whose page asked for it
\* (tweets[:max_tweets], with max_tweets = 20 of scrape_all_accounts, is above
\* every list of the model).
TweetsOf(calls) ==
    IF calls = <<>> THEN <<>>
    ELSE IF IsTimelineCall(Head(calls))
         THEN <<Head(calls)[1]>> \o TweetsOf(Tail(calls))
         ELSE TweetsOf(Tail(calls))

\* scrape_user_timeline_playwright(username): xhr_calls = [] and
\* self.page.on("response", handle_response) on the page all calls share.
PlaywrightCall ==
    /\ xpc \in {"idle", "returned"}
    /\ x_acct < NumAccounts
    /\ x_acct' = x_acct + 1
    /\ xhr_calls' = <<>>
    /\ x_tweets' = <<>>
    /\ xpc' = "registered"
    /\ UNCHANGED <<coreVars, events, rateVars, env, summaryVars, slackVars,
                   timelineVars, recentVars, loopVars, attemptVars, capVars, pending>>

\* page.goto(url): the navigation commits.  The requests of the document it
\* replaces are gone and the account's page sends its XHR requests.
GotoCommits ==
    /\ xpc = "registered"
    /\ \E n \in 1..MaxXhr :
        pending' = [r \in XhrRequests |->
                       CASE r = <<x_acct, "UserTweets">> -> n
                         [] r = <<x_acct, "other">> -> 1
                         [] OTHER -> 0]
    /\ xpc' = "loading"
    /\ UNCHANGED <<coreVars, events, rateVars, env, summaryVars, slackVars,
                   timelineVars, recentVars, loopVars, attemptVars, capVars, x_acct,
                   xhr_calls, x_tweets>>

\* An XHR response reaches the page: the handler of the running call appends
\* it to its xhr_calls, whichever document asked for it.  The handlers of
\* the calls that returned are still registered; their lists are read by
\* nobody.
ResponseArrives ==
    /\ \E r \in XhrRequests :
        /\ pending[r] > 0
        /\ pending' = [pending EXCEPT ![r] = @ - 1]
        /\ xhr_calls' = IF xpc \in {"registered", "loading"}
                        THEN Append(xhr_calls, r)
                        ELSE xhr_calls
    /\ UNCHANGED <<coreVars, events, rateVars, env, summaryVars, slackVars,
                   timelineVars, recentVars, loopVars, attemptVars, capVars, xpc, x_acct,
                   x_tweets>>

\* page.goto raises (its 30 s timeout: the network never went idle) and the
\* call returns [] with responses of the page still under way.
GotoRaises ==
    /\ xpc = "loading"
    /\ x_tweets' = <<>>
    /\ xpc' = "returned"
    /\ UNCHANGED <<coreVars, events, rateVars, env, summaryVars, slackVars,
                   timelineVars, recentVars, loopVars, attemptVars, capVars, x_acct,
                   xhr_calls, pending>>

\* The network went idle: the wait for a tweet element times out (return [])
\* or the responses of xhr_calls are parsed into the tweets of the account.
PlaywrightReturn ==
    /\ xpc = "loading"
    /\ pending = NoPending
    /\ \E found \in BOOLEAN :
        x_tweets' = IF found THEN TweetsOf(xhr_calls) ELSE <<>>
    /\ xpc' = "returned"
    /\ UNCHANGED <<coreVars, events, rateVars, env, summaryVars, slackVars,
                   timelineVars, recentVars, loopVars, attemptVars, capVars, x_acct,
                   xhr_calls, pending>>

\* The Playwright scrapes of the accounts, one after the other on one page.
InitXhr ==
    /\ version = "scrapfly"
    /\ now = 0
    /\ ProbeIdle
    /\ DateIdle
    /\ FilterIdle
    /\ MainIdle
    /\ env = EnvVars
    /\ ExtIdle

NextXhr ==
    \/ PlaywrightCall
    \/ GotoCommits
    \/ ResponseArrives
    \/ GotoRaises
    \/ PlaywrightReturn

SpecXhr == InitXhr /\ [][NextXhr]_vars

---------------------------------------------------------------------------
(* The caps on what one account contributes *)

\* selectors of get_user_tweets: three in scripts/tweet_scraper.py, five in
\* scripts/twitter_scraper_nitter.py.
NumSelectors(v) == IF v = "nitter" THEN 5 ELSE 3

\* How many elements a selector finds on the pages of the model.
ContainerCounts == {0, 9, MaxContainers}

\* Which containers pass the text and date conditions of the loop body.
Patterns == {"all", "odd", "none"}

Passes(pattern, i) ==
    CASE pattern = "all" -> TRUE
      [] pattern = "odd" -> i % 2 = 1
      [] OTHER -> FALSE

\* The first selector with a match, 0 when none matches.
FirstMatch(found) ==
    IF \A s \in DOMAIN found : found[s] = 0 THEN 0
    ELSE CHOOSE s \in DOMAIN found :
             /\ found[s] > 0
             /\ \A r \in DOMAIN found : r < s => found[r] = 0

\* tweet_containers = containers[:10] of the first selector that matches; a
\* container is named by its selector and its place in the selector's result.
SelectContainers(found) ==
    LET s == FirstMatch(found)
    IN  IF s = 0 THEN <<>>
        ELSE [i \in 1..Min(found[s], ContainerLimit) |-> <<s, i>>]

\* f"@{username}: {tweet_text}"
FormatEntry(user, text) == <<"@", user, ": ", text>>

RECURSIVE CollectTweets(_, _, _, _, _)
\* for container in tweet_containers: ... tweets.append(...);
\* if len(tweets) >= 8: break
CollectTweets(user, cs, i, pattern, acc) ==
    IF i > Len(cs) THEN acc
    ELSE IF Passes(pattern, i)
         THEN LET a == Append(acc, FormatEntry(user, cs[i]))
              IN  IF Len(a) >= TweetCap THEN a
                  ELSE CollectTweets(user, cs, i + 1, pattern, a)
         ELSE CollectTweets(user, cs, i + 1, pattern, acc)

\* Every tweet is kept.
KeepAll(ts) == ts

RECURSIVE DedupeFrom(_, _, _)
DedupeFrom(ts, seen, acc) ==
    IF ts = <<>> THEN acc
    ELSE LET tweet_id == Head(ts)
         IN  IF tweet_id # NoId /\ tweet_id \notin seen
             THEN DedupeFrom(Tail(ts), seen \cup {tweet_id}, Append(acc, tweet_id))
             ELSE DedupeFrom(Tail(ts), seen, acc)

\* unique_tweets: the tweets with an id that no tweet before them has; a
\* tweet is written as its id, NoId when tweet.get("id") is falsy.
Dedupe(ts) == DedupeFrom(ts, {}, <<>>)

\* seq[:n]
FirstOf(seq, n) == SubSeq(seq, 1, Min(n, Len(seq)))

\* The tweets parsed from the XHR calls of a Scrapfly result, by id.
RawTweets == UNION {[1..n -> {NoId} \cup (1..(MaxRaw - 1))] : n \in 1..MaxRaw}

\* f"@{username}: {text}{engagement_info}"
FormatTweetForSummary(user, text, engagement) ==
    <<"@", user, ": ", text, engagement>>

NoCapIn == [user |-> 0, found |-> <<>>, pattern |-> "none", raw |-> <<>>,
            max_tweets |-> 0, recent |-> 0]

\* get_user_tweets of the scripts versions on a page that answered 200: the
\* selection of the containers and the loop over them.
CollectCall ==
    /\ kpc = "idle"
    /\ version \in {"scripts", "nitter"}
    /\ \E user \in 1..NumAccounts, pattern \in Patterns,
          found \in [1..NumSelectors(version) -> ContainerCounts] :
        /\ cap_in' = [NoCapIn EXCEPT !.user = user, !.found = found,
                                    !.pattern = pattern]
        /\ cap_looked' = {SelectContainers(found)[i] :
                             i \in 1..Len(SelectContainers(found))}
        /\ cap_out' = CollectTweets(user, SelectContainers(found), 1, pattern,
                                    <<>>)
    /\ kpc' = "get_user_tweets"
    /\ UNCHANGED <<coreVars, events, rateVars, env, summaryVars, slackVars,
                   timelineVars, recentVars, loopVars, attemptVars, xhrVars>>

\* scrape_user_timeline_scrapfly with tweets parsed from the XHR calls: the
\* duplicates are removed and unique_tweets[:max_tweets] is returned.
DedupeCall ==
    /\ kpc = "idle"
    /\ version = "scrapfly"
    /\ \E raw \in RawTweets, m \in MaxTweetsArgs :
        /\ cap_in' = [NoCapIn EXCEPT !.raw = raw, !.max_tweets = m]
        /\ cap_out' = FirstOf(Dedupe(raw), m)
    /\ cap_looked' = {}
    /\ kpc' = "scrapfly"
    /\ UNCHANGED <<coreVars, events, rateVars, env, summaryVars, slackVars,
                   timelineVars, recentVars, loopVars, attemptVars, xhrVars>>

\* One account of scrape_all_accounts with its recent tweets:
\* for tweet in recent_tweets[:5]: all_tweets.append(format_tweet_for_summary(
\* tweet, username)).
AccountCall ==
    /\ kpc = "idle"
    /\ version = "scrapfly"
    /\ \E user \in 1..NumAccounts, n \in 0..MaxRecent, engaging \in BOOLEAN :
        /\ cap_in' = [NoCapIn EXCEPT !.user = user, !.recent = n]
        /\ cap_out' = [i \in 1..Len(FirstOf([j \in 1..n |-> j], AccountCap)) |->
                          FormatTweetForSummary(user, i,
                              IF engaging THEN "engagement" ELSE "")]
    /\ cap_looked' = {}
    /\ kpc' = "accounts"
    /\ UNCHANGED <<coreVars, events, rateVars, env, summaryVars, slackVars,
                   timelineVars, recentVars, loopVars, attemptVars, xhrVars>>

InitCaps ==
    /\ version \in {"scripts", "nitter", "scrapfly"}
    /\ now = 0
    /\ ProbeIdle
    /\ DateIdle
    /\ FilterIdle
    /\ MainIdle
    /\ env = EnvVars
    /\ ExtIdle

NextCaps ==
    \/ CollectCall
    \/ DedupeCall
    \/ AccountCall

SpecCaps == InitCaps /\ [][NextCaps]_vars

---------------------------------------------------------------------------
(* Claims about the mirror selection (SpecProbe) *)

SelectionDone == ppc = "done"

Accepted == ppc = "done" /\ current_instance # None

\* C3: the selection probes the instances in list order and selects the first
\* whose probe is accepted: when it has returned an instance, every earlier
\* instance was skipped in cooldown or probed and rejected, no later instance
\* was touched, and when it has returned None every instance was skipped or
\* rejected.
C3_FirstAcceptedInOrder ==
    SelectionDone =>
        IF current_instance # None
        THEN /\ probe_log[current_instance] = "accepted"
             /\ \A j \in Instances :
                    /\ j < current_instance => probe_log[j] \in {"skipped", "rejected"}
                    /\ j > current_instance => probe_log[j] = "none"
        ELSE \A j \in Instances : probe_log[j] \in {"skipped", "rejected"}

C3_Witness ==
    /\ SelectionDone
    /\ current_instance = 3
    /\ probe_log[1] = "skipped"
    /\ probe_log[2] = "rejected"

\* The markup the claim speaks of: one of the timeline/profile divs (scripts),
\* at least one of the indicator strings (every other version).
ExpectedMarkup(v, b) == IF v = "scripts" THEN b.divs ELSE b.ind >= 1

ClaimedCooldown(v) ==
    CASE v \in {"agent", "root"} -> 90
      [] v = "scripts" -> 120
      [] v = "nitter" -> 300

AtInstanceInCooldown ==
    /\ ppc = "loop"
    /\ idx <= NumInstances
    /\ approach = 1
    /\ instance_retry_delays[idx] # NoDelay
    /\ now < instance_retry_delays[idx]

CooldownRecorded ==
    /\ instance_retry_delays'[idx] = now + ClaimedCooldown(version)
    /\ instance_retry_delays'[idx] > now'
    /\ ppc' = "loop"
    /\ probe_log'[idx] = "rejected"
    /\ current_instance' = current_instance

\* C5 as stated: an instance in cooldown gets no probe request, and every
\* probe answered with status 429 records a future cooldown deadline and does
\* not accept the instance.
C5_Every429RecordsCooldown ==
    [][/\ AtInstanceInCooldown => nreq' = nreq
       /\ (nreq' = nreq + 1 /\ ~last_resp'.exc
               /\ last_resp'.status = HTTP_RATE_LIMITED) => CooldownRecorded]_vars

\* C5 amended: an instance in cooldown gets no probe request, and a probe
\* answered with status 429 whose final URL matches none of the redirect
\* patterns records a cooldown deadline 90 s (agent, root), 120 s (scripts)
\* or 300 s (nitter) in the future and does not accept the instance; a 429
\* response at a flagged URL records nothing.
C5_Direct429RecordsCooldown ==
    [][/\ AtInstanceInCooldown => nreq' = nreq
       /\ (nreq' = nreq + 1 /\ ~last_resp'.exc
               /\ last_resp'.status = HTTP_RATE_LIMITED) =>
             IF last_resp'.flagged
             THEN instance_retry_delays' = instance_retry_delays
             ELSE CooldownRecorded]_vars

\* The first instance was skipped in cooldown and the second answered 429.
C5_Witness ==
    /\ ppc = "loop"
    /\ idx = 3
    /\ probe_log[1] = "skipped"
    /\ probe_log[2] = "rejected"
    /\ nreq = 1
    /\ last_resp.status = HTTP_RATE_LIMITED
    /\ ~last_resp.flagged
    /\ instance_retry_delays[2] > now

---------------------------------------------------------------------------
(* Claims about the date functions (SpecDate) *)

\* The UTC date of a timestamp, as a day number.
DayOf(ts) == ts \div SecondsPerDay

RangeComputed == start_date # None

InsideRange(ts) == start_date <= ts /\ ts <= end_date

\* A date string that, stripped, has the layout of one of the formats of the
\* version.
AcceptedLayout(v, s) ==
    /\ s.kind = "fmt"
    /\ s.shape <= NumFormats(v)
    /\ s.shape <= NumSeparatedFormats => s.sep = FormatSep(v)

\* C8 as stated: _parse_tweet_date never raises, returns None for None, for
\* the empty string and for a string that matches no format, and returns the
\* UTC datetime of the format that parses the stripped string.
C8_ParseNeverRaises ==
    parse_out # NotParsed =>
        /\ parse_out.kind # "raise"
        /\ IF AcceptedLayout(version, parse_in)
           THEN parse_out = [kind |-> "dt",
                             ts |-> parse_in.day * SecondsPerDay + parse_in.tod]
           ELSE parse_out = ParsedNone

\* C9: the window of a run starts at 00:00:00 and ends at 23:59:59 of the day
\* before the current UTC date, start <= end, a whole-second timestamp lies
\* in it exactly when its UTC date is yesterday, the time 24 hours before now
\* is inside, and now and the time two days before now are outside.
C9_WindowIsYesterday ==
    RangeComputed =>
        /\ DayOf(start_date) = DayOf(now) - 1
        /\ start_date % SecondsPerDay = 0
        /\ DayOf(end_date) = DayOf(now) - 1
        /\ end_date % SecondsPerDay = 23 * 3600 + 59 * 60 + 59
        /\ start_date <= end_date
        /\ \A ts \in SampleTimestamps :
               InsideRange(ts) <=> DayOf(ts) = DayOf(now) - 1
        /\ InsideRange(now - SecondsPerDay)
        /\ ~InsideRange(now)
        /\ ~InsideRange(now - 2 * SecondsPerDay)

\* The window of a run in the last second of a day.
C9_Witness ==
    /\ RangeComputed
    /\ now % SecondsPerDay = EndOfDay
    /\ InsideRange(now - SecondsPerDay)
    /\ end_date = now - SecondsPerDay

---------------------------------------------------------------------------
(* Claims about the filter of get_user_tweets (SpecFilter) *)

\* The loop has dealt with container i.
Processed(i) == i >= 1 /\ i < cidx /\ i <= Len(page)

Included(i) == \E k \in 1..Len(tweets) : tweets[k] = i

LoopDone == cidx > Len(page)

UnparseableDate(v, c) ==
    /\ c.text = "ok"
    /\ c.date_el
    /\ LET s == DateStringRead(v, c)
       IN  \/ s.kind \in {"empty", "blank", "garbage"}
           \/ s.kind = "fmt" /\ ~AcceptedLayout(v, s)

\* C7 as stated: in every version a post whose date string matches none of
\* the accepted formats is included in the collected list.
C7_UnparseableIncluded ==
    \A i \in 1..Len(page) :
        (Processed(i) /\ UnparseableDate(version, page[i])) => Included(i)

\* C7 amended: a post whose date string matches none of the accepted formats
\* is included by the scripts/ versions and dropped by ai_summary_agent.py and
\* src/tweet_scraper.py.
C7_UnparseableIncludedInScriptsOnly ==
    \A i \in 1..Len(page) :
        (Processed(i) /\ UnparseableDate(version, page[i])) =>
            (Included(i) <=> version \in {"scripts", "nitter"})

\* The agent has dropped a post with a garbage date, and (a state of another
\* run) the scripts version has kept one.
C7_Witness ==
    /\ Len(page) = 1
    /\ Processed(1)
    /\ page[1].text = "ok"
    /\ page[1].date_el
    /\ DateStringRead(version, page[1]) = GarbageStr
    /\ \/ version = "agent" /\ tweets = <<>>
       \/ version = "scripts" /\ tweets = <<1>>

---------------------------------------------------------------------------
(* Claims about main (SpecMain) *)

MainDone == mpc = "done"

\* A call of send_to_slack with a non-empty message.
SentNonEmpty(m) == m.via = "send_to_slack" /\ ~m.empty

\* C1 as stated: every run of main with the required environment variables
\* set has called send_to_slack with a non-empty message when it ends.
C1_AlwaysSendsMessage ==
    (MainDone /\ env_ok) =>
        \E k \in 1..Len(slack_log) : SentNonEmpty(slack_log[k])

\* C1 amended: with the required environment variables set, main of the
\* scripts/ Nitter versions ends after exactly one call of send_to_slack with
\* a non-empty message (summary, canned text or error alert); main of the
\* scrapfly version ends without a message when neither backend is installed
\* and otherwise after a non-empty message, the error alert going through
\* requests.post and not send_to_slack, and a second message only as the
\* error alert that follows the summary when leaving the async with block
\* raised; main of the agent and of the root version calls send_to_slack
\* exactly when tweets were collected and no exception was raised.
C1_SendsMessagePerVersion ==
    (MainDone /\ env_ok) =>
        CASE version \in {"scripts", "nitter"} ->
                 /\ Len(slack_log) = 1
                 /\ SentNonEmpty(slack_log[1])
          [] version = "scrapfly" ->
                 IF backends = {}
                 THEN slack_log = <<>>
                 ELSE /\ Len(slack_log) \in {1, 2}
                      /\ ~slack_log[1].empty
                      /\ \A k \in 1..Len(slack_log) :
                             slack_log[k].via = "requests.post" <=>
                                 slack_log[k].kind = "error_alert"
                      /\ Len(slack_log) = 2 =>
                             /\ slack_log[1].kind # "error_alert"
                             /\ slack_log[2].kind = "error_alert"
          [] OTHER ->
                 /\ Len(slack_log) <= 1
                 /\ slack_log # <<>> <=> (all_tweets > 0 /\ ~raised)
                 /\ slack_log # <<>> => slack_log[1].via = "send_to_slack"

\* The scripts version has ended with the canned text of a run without
\* tweets.
C1_Witness ==
    /\ version = "scripts"
    /\ MainDone
    /\ env_ok
    /\ acct = NumAccounts
    /\ all_tweets = 0
    /\ Len(slack_log) = 1
    /\ slack_log[1].kind = "demo"

\* C2 as stated: no exception propagates out of main.
C2_NoExceptionLeavesMain == ~raised

\* C2 amended: no exception leaves main of the scripts/ versions; main of
\* the agent and of the root version logs and raises again, so a constructor
\* that found no working mirror ends main with that exception.
C2_OnlyAgentAndRootReraise ==
    /\ raised => (version \in {"agent", "root"} /\ MainDone)
    /\ (/\ version \in {"agent", "root"}
        /\ MainDone
        /\ env_ok
        /\ start_date = None
        /\ current_instance = None) => raised

\* The agent's constructor found no working mirror and the exception left
\* main; nothing was posted.
C2_Witness ==
    /\ version = "agent"
    /\ MainDone
    /\ raised
    /\ current_instance = None
    /\ start_date = None
    /\ slack_log = <<>>

\* A message whose text is the error string of generate_summary.
ErrorTextPosted == \E k \in 1..Len(slack_log) : slack_log[k].kind = "failed"

\* C10 as stated: when the chat-completion request raises, generate_summary
\* returns the manual summary or the demo string, and main posts no error
\* text as the summary.
C10_FallbackIsManualSummary ==
    api_result = "raise" =>
        /\ summary.kind \in {"manual", "demo"}
        /\ ~ErrorTextPosted

\* C10 amended: when the chat-completion request raises, generate_summary
\* does not raise; in the scripts/ versions it returns the manual summary, in
\* the agent and the root version it returns the string "Failed to generate
\* summary", which main then posts.
C10_FallbackPerVersion ==
    api_result = "raise" =>
        /\ \/ mpc \in {"send", "done"}
           \/ version = "scrapfly" /\ mpc \in {"exit", "handler"}
        /\ ~raised
        /\ IF version \in {"agent", "root"}
           THEN /\ summary.kind = "failed"
                /\ MainDone => ErrorTextPosted
           ELSE /\ summary.kind = "manual"
                /\ ~summary.empty
                /\ ~ErrorTextPosted

\* The agent has posted the error string of a failed request.
C10_Witness ==
    /\ version = "agent"
    /\ api_result = "raise"
    /\ MainDone
    /\ ErrorTextPosted

---------------------------------------------------------------------------
(* Claims about the summary functions (SpecSummary) *)

SummaryReturned == spc = "returned"

\* The N the claim names for each version.
ClaimedPromptLimit(v) == IF v \in {"agent", "root"} THEN 20 ELSE 25

Looked(i) == spc = "returned" \/ (spc = "manual" /\ i < kidx)

InCategory(i, c) == \E k \in 1..Len(categorized[c]) : categorized[c][k] = i

RECURSIVE SumOfCounts(_)
SumOfCounts(c) == IF c = 0 THEN 0 ELSE Len(categorized[c]) + SumOfCounts(c - 1)

\* The tweets the claim says are considered.
ClaimedConsidered ==
    IF version = "scrapfly" THEN 1..Len(tweet_list)
    ELSE {i \in 1..Len(tweet_list) : i <= 20}

\* C12: generate_manual_summary puts every considered tweet (the first 20 in
\* the Nitter versions, all in the Scrapfly version) into the first category,
\* in declaration order, one of whose keywords occurs in it, and into no
\* other; a tweet without a keyword is in no category; the counts of the
\* categories sum to the number of considered tweets with a keyword.
C12_FirstCategoryWins ==
    (spc = "manual" \/ (SummaryReturned /\ summary.kind = "manual")) =>
        /\ \A i \in 1..Len(tweet_list), c \in Categories :
               InCategory(i, c) <=>
                   /\ i \in ClaimedConsidered
                   /\ Looked(i)
                   /\ c \in tweet_list[i]
                   /\ \A d \in 1..(c - 1) : d \notin tweet_list[i]
        /\ SummaryReturned =>
               SumOfCounts(NumCategories) =
                   Cardinality({i \in ClaimedConsidered : tweet_list[i] # {}})

\* The Nitter version has categorized a list of more than 20 tweets, each
\* with keywords of the second and the fourth category.
C12_Witness ==
    /\ version = "nitter"
    /\ SummaryReturned
    /\ summary.kind = "manual"
    /\ Len(tweet_list) = 22
    /\ \A i \in 1..22 : tweet_list[i] = {2, 4}
    /\ Len(categorized[2]) = 20
    /\ categorized[4] = <<>>

---------------------------------------------------------------------------
(* Claims about the account loop (SpecMain) *)

StartsBefore(p) == Cardinality({q \in 1..(p - 1) : events[q].op = "start"})

EndsBefore(p) ==
    Cardinality({q \in 1..(p - 1) : events[q].op = "end"})

\* The k-th scrape that starts is that of the k-th account of the list, and
\* every scrape started before it has returned.
ScrapesInListOrder ==
    \A p \in 1..Len(events) :
        events[p].op = "start" =>
            /\ events[p].acct = StartsBefore(p) + 1
            /\ EndsBefore(p) = StartsBefore(p)

\* C13 as stated: accounts are scraped one at a time in list order, each once,
\* the next never before the previous has returned, and the summarization
\* and the post of the summary start only after the last account of the list
\* has been processed.
C13_ScrapedOncePostedAfterLast ==
    /\ ScrapesInListOrder
    /\ \A p \in 1..Len(events) :
           events[p].op \in {"summarize", "post"} => EndsBefore(p) = NumAccounts

\* C13, amended: accounts are scraped one at a time in list order, each at
\* most once, the next never before the previous has returned; the
\* summarization and the post of the summary start after the last account has
\* been processed, or, in scripts/tweet_scraper.py and
\* twitter_scraper_nitter.py, with no account scraped at all when the
\* constructor found no working instance.
C13_InOrderPostedAfterLoop ==
    /\ ScrapesInListOrder
    /\ \A p \in 1..Len(events) :
           events[p].op \in {"summarize", "post"} =>
               \/ EndsBefore(p) = NumAccounts
               \/ /\ CatchesPerAccount(version)
                  /\ current_instance = None
                  /\ StartsBefore(p) = 0

\* The async variant has scraped every account and has posted its message.
C13_Witness ==
    /\ version = "scrapfly"
    /\ mpc = "done"
    /\ Len(events) >= 2
    /\ events[2] = Ev("end", 1)
    /\ StartsBefore(Len(events)) = NumAccounts
    /\ events[Len(events)].op = "post"

\* The sleeps the claim names: 3 to 5 s in the requests-based versions, at
\* least 0.5 s in the async variant.
ClaimedSleep(v, d) ==
    IF v = "scrapfly" THEN d >= 500 ELSE d >= 3000 /\ d <= 5000

\* C14: between the end of one account's scrape and the start of the next
\* there is always a sleep (3 to 5 s in the requests-based versions, at least
\* 0.5 s in the async variant), also when processing the earlier account
\* raised; the async variant never sleeps after the last account.
C14_SleepBetweenAccounts ==
    /\ (mpc = "accounts" /\ 0 < acct /\ acct < NumAccounts) =>
           ClaimedSleep(version, slept)
    /\ (version = "scrapfly" /\ acct = NumAccounts) => slept = 0

---------------------------------------------------------------------------
(* Claims about send_to_slack (SpecSlack) *)

\* C15: send_to_slack sends one POST whose JSON body carries the message in
\* its "text" field and returns True exactly when the webhook answers 200;
\* without SLACK_WEBHOOK_URL it sends no request and returns False; when the
\* request raises or answers another status it returns False.
C15_OnePostTrueIff200 ==
    send_ret # "none" =>
        IF "SLACK_WEBHOOK_URL" \in env
        THEN /\ Len(posts) = 1
             /\ \E i \in 1..Len(posts[1].body.text) :
                    posts[1].body.text[i] = send_msg
             /\ (send_ret = "True") <=> (posts[1].outcome = 200)
             /\ send_ret \in {"True", "False"}
        ELSE /\ posts = <<>>
             /\ send_ret = "False"

\* A call with the webhook set was answered 204 and returned False.
C15_Witness ==
    /\ "SLACK_WEBHOOK_URL" \in env
    /\ send_msg = "summary"
    /\ Len(posts) = 1
    /\ posts[1].outcome = 204
    /\ send_ret = "False"

---------------------------------------------------------------------------
(* Claims about the start of main (SpecMain) *)

\* The variables the claim names as required.
ClaimedRequired(v) ==
    IF v = "scrapfly" THEN {"SLACK_WEBHOOK_URL"}
    ELSE {"OPENAI_API_KEY", "SLACK_WEBHOOK_URL"}

\* C16: with a required environment variable missing (OPENAI_API_KEY or
\* SLACK_WEBHOOK_URL; only SLACK_WEBHOOK_URL in the Scrapfly version) main
\* returns before it constructs a scraper: the run probes no mirror, fetches
\* no page, sends no chat-completion request and posts nothing.
C16_MissingVariableDoesNothing ==
    ~(ClaimedRequired(version) \subseteq env) =>
        /\ mpc \in {"start", "done"}
        /\ ProbeIdle
        /\ acct = 0
        /\ events = <<>>
        /\ api_result = "none"
        /\ summary = NoSummary
        /\ slack_log = <<>>
        /\ ~raised

\* scripts/tweet_scraper.py has returned from a run without OPENAI_API_KEY.
C16_Witness ==
    /\ version = "scripts"
    /\ env = EnvVars \ {"OPENAI_API_KEY"}
    /\ mpc = "done"
    /\ slack_log = <<>>

---------------------------------------------------------------------------
(* Claims about scrape_user_timeline (SpecTimeline) *)

Ran(method) == \E i \in 1..Len(tl_calls) : tl_calls[i] = method

TimesRun(method) ==
    Cardinality({i \in 1..Len(tl_calls) : tl_calls[i] = method})

\* C17: scrape_user_timeline tries Scrapfly first whenever the SDK is
\* installed and SCRAPFLY_API_KEY is set; it runs the Playwright scraper at
\* most once per call, and exactly when the SDK is missing, the key is
\* missing, Scrapfly answered another status than 200, no tweet was parsed
\* from the XHR calls, or the Scrapfly path raised; a failure of either method
\* yields an empty list, and the call returns a list in every case.
C17_ScrapflyFirstPlaywrightOnce ==
    /\ tpc # "idle" =>
           (tl_calls[1] = "scrapfly") <=>
               ("scrapfly" \in backends /\ "SCRAPFLY_API_KEY" \in env)
    /\ TimesRun("playwright") <= 1
    /\ TimesRun("scrapfly") <= 1
    /\ tpc = "returned" =>
           /\ Ran("playwright") <=>
                  \/ "scrapfly" \notin backends
                  \/ "SCRAPFLY_API_KEY" \notin env
                  \/ sf.status # 200
                  \/ sf.raw = 0
                  \/ sf.exc
           /\ tl_result >= 0
           /\ tl_result <= max_tweets
           /\ pw \in {"exception", "timeout"} => tl_result = 0

\* Scrapfly answered 200 without a tweet in its XHR calls, Playwright ran
\* once and timed out, and the call returned the empty list.
C17_Witness ==
    /\ tpc = "returned"
    /\ tl_calls = <<"scrapfly", "playwright">>
    /\ sf = [exc |-> FALSE, status |-> 200, raw |-> 0, unique |-> 0]
    /\ pw = "timeout"
    /\ tl_result = 0

---------------------------------------------------------------------------
(* Claims about the backends of the Scrapfly version (SpecMain) *)

AlertPosted ==
    \E i \in 1..Len(slack_log) : slack_log[i].kind = "error_alert"

\* C18: main of the Scrapfly version gives up for lack of a backend only when
\* neither Scrapfly nor Playwright is installed; with Scrapfly installed and
\* its key set but Playwright missing, the accounts are scraped through
\* Scrapfly.
C18_ScrapflyAloneScrapes ==
    (/\ version = "scrapfly"
     /\ "SLACK_WEBHOOK_URL" \in env
     /\ "SCRAPFLY_API_KEY" \in env
     /\ backends = {"scrapfly"}
     /\ mpc = "done")
        => /\ StartsBefore(Len(events) + 1) = NumAccounts
           /\ ~AlertPosted

---------------------------------------------------------------------------
(* Claims about is_tweet_recent (SpecRecent) *)

\* Milliseconds by which the tweet is older than the clock reading.
AgeOfTweet == now_utc - (created_at.local - created_at.offset)

---------------------------------------------------------------------------
(* Claims about the retry loop of the agent (SpecTweets) *)

\* C20: every call of the agent's get_user_tweets returns after finitely many
\* page requests, whatever the mirrors answer.
C20_GetUserTweetsReturns == <>(gpc = "returned")

\* C21: during one call of get_user_tweets at most max_load_more_clicks = 5
\* show-more pages are requested, however many pages in a row offer a
\* show-more link.
C21_AtMostFiveCursorPages == cursor_pages <= MaxLoadMoreClicks

\* C22: within one call no tweet of the timeline is appended to the list a
\* second time.
C22_EachTweetOnce == \A p \in PagePositions : copies[p] <= 1

\* C25: no page request, a show-more URL built earlier included, is sent to
\* an instance whose cooldown deadline is still in the future.
C25_NoRequestDuringCooldown == ~last_request.cooling

---------------------------------------------------------------------------
(* Claims about get_user_tweets of the scripts versions (SpecAttempts) *)

\* A call has returned the empty list without parsing a response.
ReturnedEmpty == npc = "returned" /\ n_result = "empty" /\ n_tweets = 0

\* C23: a call of the nitter version's get_user_tweets sends at most
\* max_retries = 3 requests for the user's page; a 502/503/504 answer or an
\* exception is retried, and gives the empty list at the third attempt; a 429
\* puts the instance that answered on a 10-minute cooldown and is retried only
\* on another instance, the empty list being returned when there is none; any
\* other status than 200 gives the empty list at once.
C23_AtMostThreeAttempts ==
    (version = "nitter" /\ page_requests > 0) =>
        /\ page_requests <= 3
        /\ page_requests = attempt + (IF npc = "attempt" THEN 0 ELSE 1)
        /\ requested.status \in {HTTP_UNAVAILABLE, AttemptRaised} =>
              IF page_requests < 3 THEN npc = "attempt" ELSE ReturnedEmpty
        /\ requested.status = HTTP_RATE_LIMITED =>
              /\ instance_retry_delays[requested.inst] = requested.at + 600
              /\ npc = "attempt" => current_instance \notin {None, requested.inst}
              /\ current_instance \in {None, requested.inst} => ReturnedEmpty
        /\ requested.status = HTTP_NOT_FOUND => ReturnedEmpty

\* C23 witness: the third request of a call was sent after a 429 and a switch
\* to another instance, and its 503 answer ended the call with the empty list.
C23_Witness ==
    /\ version = "nitter"
    /\ page_requests = 3
    /\ requested.status = HTTP_UNAVAILABLE
    /\ ReturnedEmpty
    /\ \E i \in Instances :
        i # requested.inst /\ instance_retry_delays[i] = requested.at + 600

\* C24: the nitter version's get_user_tweets extracts tweets only from a 200
\* response: a call whose last answer was not a 200 returns the empty list and
\* parses no response body.
C24_ParsesOnly200 ==
    (version = "nitter" /\ npc = "returned" /\ page_requests > 0
        /\ requested.status # HTTP_OK) => ReturnedEmpty

\* C26: once current_instance is None it stays None: no later step sends a
\* page request or runs the selection again, and every call that starts
\* returns the empty list at once, whatever the clock reads.
C26_NoneStaysNone ==
    [][current_instance = None =>
          /\ current_instance' = None
          /\ run_requests' = run_requests
          /\ run_probes' = run_probes
          /\ ncalls' # ncalls => (npc' = "returned" /\ n_result' = "empty"
                                      /\ n_tweets' = 0)]_vars

\* C26 witness: the second call on a scraper without an instance has returned
\* the empty list without a request, after the last cooldown has expired.
C26_Witness ==
    /\ current_instance = None
    /\ ReturnedEmpty
    /\ ncalls = 2
    /\ page_requests = 0
    /\ \E i \in Instances : instance_retry_delays[i] # NoDelay
    /\ \A i \in Instances : ~InCooldown(instance_retry_delays, i, now)

---------------------------------------------------------------------------
(* Claims about scrape_user_timeline_playwright (SpecXhr) *)

\* C27: the tweets a call returns for an account come only from responses to
\* the requests of that account's page.
C27_OnlyOwnResponses ==
    \A i \in 1..Len(x_tweets) : x_tweets[i] = x_acct

---------------------------------------------------------------------------
(* Claims about the posts of one run (SpecMain) *)

\* C28: in one run of main at most one message is posted to the webhook, the
\* summary (or its canned replacement) or the error alert, never both.
C28_AtMostOnePost == Len(slack_log) <= 1

---------------------------------------------------------------------------
(* Claims about the caps (SpecCaps) *)

\* C29: get_user_tweets of the scripts versions looks at no more than the
\* first 10 containers of the first selector that matches and returns at
\* most 8 entries, each "@<username>: <text>"; the Scrapfly path returns at
\* most max_tweets tweets, no two with the same id and none without an id;
\* scrape_all_accounts adds at most 5 formatted tweets of an account.
C29_PerAccountCaps ==
    /\ kpc = "get_user_tweets" =>
          /\ \A c \in cap_looked :
                /\ c[1] \in DOMAIN cap_in.found
                /\ cap_in.found[c[1]] > 0
                /\ \A r \in 1..(c[1] - 1) : cap_in.found[r] = 0
                /\ c[2] \in 1..10
          /\ Len(cap_out) <= 8
          /\ \A i \in 1..Len(cap_out) :
                /\ cap_out[i][1] = "@"
                /\ cap_out[i][2] = cap_in.user
                /\ cap_out[i][3] = ": "
                /\ cap_out[i][4] \in cap_looked
    /\ kpc = "scrapfly" =>
          /\ Len(cap_out) <= cap_in.max_tweets
          /\ \A i, j \in 1..Len(cap_out) : cap_out[i] = cap_out[j] => i = j
          /\ \A i \in 1..Len(cap_out) : cap_out[i] # NoId
    /\ kpc = "accounts" =>
          /\ Len(cap_out) <= 5
          /\ \A i \in 1..Len(cap_out) :
                /\ cap_out[i][1] = "@"
                /\ cap_out[i][2] = cap_in.user
                /\ cap_out[i][3] = ": "

\* C29 witness: the nitter version found 12 containers with its third
\* selector, looked at 10 of them and returned 8 entries.
C29_Witness ==
    /\ kpc = "get_user_tweets"
    /\ version = "nitter"
    /\ FirstMatch(cap_in.found) = 3
    /\ cap_in.found[3] = 12
    /\ Cardinality(cap_looked) = 10
    /\ Len(cap_out) = 8

=============================================================================
